---------------------------- MODULE Spec2Model ----------------------------
(***************************************************************************)
(* DataReaderHistory (Fast-DDS): the reader-side sample history.           *)
(* The model follows DataReaderHistory.cpp: the change store m_changes,    *)
(* the instance table keyed_changes_, the cached flag m_isHistoryFull and  *)
(* the four admission strategies bound at construction.  Every public      *)
(* operation runs under the reader's recursive mutex, so each one is a     *)
(* single atomic action.                                                   *)
(***************************************************************************)
EXTENDS Integers, Sequences, FiniteSets, TLC

\* ------------------------------------------------------------------ bounds
\* Sequence numbers handed out to arriving samples: s1 .. sMaxSn.
MaxSn == 5
\* Instance handles 1 .. NumHandles (A, B, C); 0 is the undefined handle.
NumHandles == 3
\* QoS values explored by the constructor.
MaxDepth == 2
MaxSamplesQos == 2
MaxInstancesQos == 2
MaxPerInstanceQos == 1
\* unknown_missing_changes_up_to values 0 .. MaxMissing.
MaxMissing == 1
\* Deadline timestamps 1 .. MaxDeadline (0 is the default time_point).
MaxDeadline == 3
\* Samples delivered while the deadlines are exercised.
MaxDeadlineSn == 3
\* The KEEP_LAST scenario: its depth and the number of samples delivered.
ScenarioDepth == 3
ScenarioSamples == 5
\* Samples delivered while two threads run.
MaxThreadSn == 2
\* Samples delivered while the instances are looked up.
MaxQuerySn == 3
\* Samples delivered while samples are removed through an iterator.
MaxIteratorSn == 3
\* GUIDs: prefixes and entity ids 0..Max (0 is the unknown value of each).
MaxGuidPrefix == 1
MaxEntityId == 1
\* Locators, and the longest locator list a ReaderLocator is given.
NumLocators == 1
MaxLocators == 1

\* ------------------------------------------------------- program constants
\* std::numeric_limits<int32_t>::max()
IntMax == 2147483647
\* InstanceHandle_t(): the undefined (all zero) handle, c_InstanceHandle_Unknown
HANDLE_NIL == 0
\* tmp.value[0] = 1: the handle of the fictitious instance of an unkeyed topic
FictitiousHandle == 1
\* GuidPrefix_t(): all zeros
c_GuidPrefix_Unknown == 0

Handles == 1..NumHandles
KEEP_LAST_HISTORY_QOS == "KEEP_LAST"
KEEP_ALL_HISTORY_QOS == "KEEP_ALL"

VARIABLES
    has_keys_,        \* type->m_isGetKeyDefined
    qos,              \* the DataReaderQos snapshot: history + resource limits (raw values)
    attached,         \* mp_reader != nullptr /\ mp_mutex != nullptr
    m_changes,        \* the change store (base History::m_changes)
    keyed_changes_,   \* the instance table: handle -> KeyedChanges
    m_isHistoryFull,  \* the cached "full" flag
    next_deadline_us_,\* the deadline of an unkeyed topic
    next_sn,          \* the sequence number of the next arriving sample
    removed,          \* some removal operation has been called on the attached history
    last,             \* the last call: operation, arguments and return value
    result,           \* what the last query handed back to its caller
    written,          \* per handle, the value set_next_deadline last wrote for it
    pre,              \* the history and the arguments at the last received_change
    iter,             \* the iterator the caller of remove_change_sub(change, it) holds
    reader_locator,   \* a writer's ReaderLocator: its members
    locator_call,     \* the last call on the ReaderLocator and the one before it
    pc,               \* per thread, where it is in the operation it executes
    mutex,            \* the reader's recursive mutex: its owner and hold count
    frame,            \* per thread, the arguments and locals of its operation
    seen              \* what the application's last query read

\* the threads' part of the state
threads == <<pc, mutex, frame, seen>>

\* what the specifications of the queries, the deadlines, the call pairs and the
\* threads add
\* the writer side
locators == <<reader_locator, locator_call>>

aux == <<result, written, pre, iter, locators, threads>>

vars == <<has_keys_, qos, attached, m_changes, keyed_changes_, m_isHistoryFull,
          next_deadline_us_, next_sn, removed, last, aux>>

\* ---------------------------------------------------------------- helpers
Min(a, b) == IF a < b THEN a ELSE b

\* A CacheChange_t: its sequence number (one writer) and its instance handle.
CacheChange(sn, h) == [sequenceNumber |-> sn, instanceHandle |-> h]

isDefined(h) == h # HANDLE_NIL

\* KeyedChanges(): no samples, default-constructed time_point.
KeyedChanges == [cache_changes |-> <<>>, next_deadline_us |-> 0]

\* The state the operations work on, as one value.
History(changes, keyed, full) == [changes |-> changes, keyed |-> keyed, full |-> full]

Here == History(m_changes, keyed_changes_, m_isHistoryFull)

\* A call's outcome: return value, new state, and the change as the call left it.
Outcome(ok, H, c) == [ok |-> ok, H |-> H, change |-> c]

\* std::map::insert of (h, KeyedChanges()): no effect when h is already there.
map_insert(keyed, h) ==
    [x \in (DOMAIN keyed) \cup {h} |-> IF x \in DOMAIN keyed THEN keyed[x] ELSE KeyedChanges]

\* std::map::erase
map_erase(keyed, h) == [x \in (DOMAIN keyed) \ {h} |-> keyed[x]]

\* the sequence without its i-th element (vector::erase)
RemoveAt(s, i) == [j \in 1..(Len(s) - 1) |-> IF j < i THEN s[j] ELSE s[j + 1]]

\* the first position of s that satisfies Test, or 0
FirstIndex(s, Test(_)) ==
    IF \E i \in 1..Len(s) : Test(s[i])
    THEN CHOOSE i \in 1..Len(s) : Test(s[i]) /\ \A j \in 1..(i - 1) : ~Test(s[j])
    ELSE 0

\* ------------------------------------------------------------ construction
\* The constructor rewrites a limit of 0 to the integer maximum.
Unlimited(n) == IF n = 0 THEN IntMax ELSE n

resource_limited_qos_ ==
    [max_samples |-> Unlimited(qos.max_samples),
     max_instances |-> Unlimited(qos.max_instances),
     max_samples_per_instance |-> Unlimited(qos.max_samples_per_instance)]

history_qos_ == [kind |-> qos.kind, depth |-> qos.depth]

\* HistoryAttributes::maximumReservedCaches, computed from the raw QoS.
to_history_attributes ==
    IF qos.kind # KEEP_ALL_HISTORY_QOS
    THEN IF has_keys_ THEN qos.depth * qos.max_instances ELSE qos.depth
    ELSE qos.max_samples

QosValues ==
    [kind : {KEEP_ALL_HISTORY_QOS, KEEP_LAST_HISTORY_QOS},
     depth : 1..MaxDepth,
     max_samples : 0..MaxSamplesQos,
     max_instances : 0..MaxInstancesQos,
     max_samples_per_instance : 0..MaxPerInstanceQos]

\* The snapshots the constructor is given.  A value no code path of the bound
\* strategy reads is kept at one value: the depth under KEEP_ALL, the instance limits
\* of an unkeyed topic, and max_samples of a keyed KEEP_LAST history (max_samples is
\* not read under KEEP_LAST at all; it varies on the unkeyed KEEP_LAST history).
Configurations ==
    {cfg \in [has_keys : BOOLEAN, qos : QosValues] :
        /\ cfg.qos.kind = KEEP_ALL_HISTORY_QOS => cfg.qos.depth = 1
        /\ ~cfg.has_keys => /\ cfg.qos.max_instances = 0
                            /\ cfg.qos.max_samples_per_instance = 0
        /\ (cfg.has_keys /\ cfg.qos.kind = KEEP_LAST_HISTORY_QOS) => cfg.qos.max_samples = 0}

NoCall == [op |-> "none", ret |-> FALSE, k |-> 0, h |-> HANDLE_NIL, erased |-> {}]

\* no query made yet: the caller's handle and time_point are default-constructed and
\* it holds no list
NoResult ==
    [op |-> "none", arg |-> HANDLE_NIL, exact |-> FALSE,
     ret |-> FALSE, handle |-> HANDLE_NIL, time |-> 0,
     target |-> "nullptr", changes |-> <<>>, ub |-> FALSE]

\* no received_change made yet
NoPre ==
    [phase |-> "none", H |-> History(<<>>, <<>>, FALSE), arrived |-> HANDLE_NIL,
     key |-> HANDLE_NIL, key_ok |-> FALSE, h |-> HANDLE_NIL]

\* no remove_change_sub(change, it) made yet: the caller holds no iterator.  An
\* iterator is the list it runs over (of the entry of `handle` when the list is an
\* entry's cache_changes), its position there (Len + 1 is end()) and whether it is
\* still valid; `passed` and `next` keep what the caller passed and the element that
\* followed the change in the list the caller iterates.
NoIterator ==
    [op |-> "none", ret |-> FALSE, aborted |-> FALSE,
     list |-> "none", handle |-> HANDLE_NIL, pos |-> 0, valid |-> FALSE,
     passed |-> "none", next |-> CacheChange(0, HANDLE_NIL)]

\* GUID_t: a prefix and an entity id
GUID_t(prefix, entity) == [guidPrefix |-> prefix, entityId |-> entity]

c_Guid_Unknown == GUID_t(c_GuidPrefix_Unknown, 0)

\* no ReaderLocator constructed yet
NoReaderLocator ==
    [constructed |-> FALSE, remote_guid |-> c_Guid_Unknown, unicast |-> <<>>,
     multicast |-> <<>>, enabled |-> FALSE, expects_inline_qos_ |-> FALSE,
     is_local_reader_ |-> FALSE, local_reader_ |-> "nullptr",
     guid_prefix_as_vector_ |-> <<c_GuidPrefix_Unknown>>,
     guid_as_vector_ |-> <<c_Guid_Unknown>>, datasharing_notifier_ |-> "nullptr"]

\* no call made on the ReaderLocator yet; sent is the locator list a send went to
NoLocatorCall ==
    [op |-> "none", guid |-> c_Guid_Unknown, ret |-> FALSE, sent |-> "none",
     prev |-> [op |-> "none", guid |-> c_Guid_Unknown, ret |-> FALSE]]

\* the RTPS receive thread and an application thread
Threads == {"rtps", "app"}

NoThread == "none"

\* a thread that executes no operation
NoFrame ==
    [op |-> "none", change |-> CacheChange(0, HANDLE_NIL), key |-> HANDLE_NIL,
     key_ok |-> FALSE, victim |-> CacheChange(0, HANDLE_NIL), nested |-> FALSE,
     ret |-> FALSE, entered |-> History(<<>>, <<>>, FALSE)]

NothingSeen == [op |-> "none", torn |-> FALSE]

NeverWritten == [h \in {HANDLE_NIL} \cup Handles |-> 0]

\* the history the constructor builds from one of the snapshots cfgs
Construct(cfgs) ==
    /\ \E cfg \in cfgs : has_keys_ = cfg.has_keys /\ qos = cfg.qos
    /\ attached = FALSE
    /\ m_changes = <<>>
    /\ keyed_changes_ = <<>>
    /\ m_isHistoryFull = FALSE
    /\ next_deadline_us_ = 0
    /\ next_sn = 1
    /\ removed = FALSE
    /\ last = NoCall
    /\ result = NoResult
    /\ written = NeverWritten
    /\ pre = NoPre
    /\ iter = NoIterator
    /\ reader_locator = NoReaderLocator
    /\ locator_call = NoLocatorCall
    /\ pc = [t \in Threads |-> "idle"]
    /\ mutex = [owner |-> NoThread, count |-> 0]
    /\ frame = [t \in Threads |-> NoFrame]
    /\ seen = NothingSeen

Init == Construct(Configurations)

\* ------------------------------------------------- base class ReaderHistory
\* History::find_change_nts: the position of the change in the store, 0 for end().
find_change_nts(changes, c) == FirstIndex(changes, LAMBDA x : x = c)

\* ReaderHistory::add_change: the change is appended to the store.
add_change(H, c) == Outcome(TRUE, [H EXCEPT !.changes = Append(@, c)], c)

\* ReaderHistory::remove_change: erase the change from the store when it is there.
remove_change(H, c) ==
    LET i == find_change_nts(H.changes, c) IN
    IF i = 0
    THEN Outcome(FALSE, H, c)
    ELSE Outcome(TRUE, [H EXCEPT !.changes = RemoveAt(@, i)], c)

\* ReaderHistory::remove_change_nts: erase the position and clear the full flag;
\* end() is left alone.
ReaderHistory_remove_change_nts(H, pos) ==
    IF pos > Len(H.changes)
    THEN H
    ELSE [H EXCEPT !.changes = RemoveAt(@, pos), !.full = FALSE]

\* --------------------------------------------------------------- find_key
find_key_unbounded(keyed, h) ==
    [ok |-> TRUE, keyed |-> map_insert(keyed, h)]

\* DataReaderHistory::find_key: the entry of handle h, created (or reclaimed from
\* the first empty entry in map order) when the table allows it.
find_key(keyed, h) ==
    IF h \in DOMAIN keyed
    THEN [ok |-> TRUE, keyed |-> keyed]
    ELSE IF Cardinality(DOMAIN keyed) < resource_limited_qos_.max_instances
    THEN [ok |-> TRUE, keyed |-> map_insert(keyed, h)]
    ELSE LET empty == {e \in DOMAIN keyed : Len(keyed[e].cache_changes) = 0} IN
         IF empty # {}
         THEN LET vit == CHOOSE e \in empty : \A f \in empty : e <= f IN
              [ok |-> TRUE, keyed |-> map_insert(map_erase(keyed, vit), h)]
         ELSE [ok |-> FALSE, keyed |-> keyed]

find_key_for_change_keeps_handle(H, c, key, key_ok) ==
    IF ~isDefined(c.instanceHandle) /\ ~key_ok
    THEN Outcome(FALSE, H, c)
    ELSE LET f == find_key(H.keyed, c.instanceHandle) IN
         Outcome(f.ok, [H EXCEPT !.keyed = f.keyed], c)

\* DataReaderHistory::find_key_for_change: a change that arrives without a handle
\* gets it from the type's getKey (key: the key the payload encodes, key_ok: whether
\* getKey succeeds); then find_key.
find_key_for_change(H, c, key, key_ok) ==
    IF ~isDefined(c.instanceHandle) /\ ~key_ok
    THEN Outcome(FALSE, H, c)
    ELSE LET a_change == IF isDefined(c.instanceHandle) THEN c
                         ELSE [c EXCEPT !.instanceHandle = key]
             f == find_key(H.keyed, a_change.instanceHandle)
         IN Outcome(f.ok, [H EXCEPT !.keyed = f.keyed], a_change)

\* ------------------------------------------------------------------ removal
\* the scan of an entry for the sample with the change's sequence number and writer
erase_from_instance(keyed, h, c) ==
    LET i == FirstIndex(keyed[h].cache_changes,
                        LAMBDA x : x.sequenceNumber = c.sequenceNumber) IN
    IF i = 0 THEN keyed
    ELSE [keyed EXCEPT ![h].cache_changes = RemoveAt(@, i)]

remove_from_key_keeps_sample(H, c) == H

\* the keyed part of both remove_change_sub overloads
remove_from_key(H, c) ==
    IF has_keys_
    THEN LET f == find_key(H.keyed, c.instanceHandle) IN
         IF f.ok
         THEN [H EXCEPT !.keyed = erase_from_instance(f.keyed, c.instanceHandle, c)]
         ELSE H
    ELSE H

remove_change_sub_keeps_full(H, c) ==
    LET r == remove_change(remove_from_key(H, c), c) IN
    Outcome(r.ok, r.H, c)

\* DataReaderHistory::remove_change_sub(change)
remove_change_sub(H, c) ==
    LET r == remove_change(remove_from_key(H, c), c) IN
    IF r.ok
    THEN Outcome(TRUE, [r.H EXCEPT !.full = FALSE], c)
    ELSE Outcome(FALSE, r.H, c)

remove_change_nts_no_scrub(H, pos) == ReaderHistory_remove_change_nts(H, pos)

\* DataReaderHistory::remove_change_nts(removal, release): pos = Len + 1 is end()
remove_change_nts(H, pos) ==
    IF /\ pos <= Len(H.changes)
       /\ isDefined(H.changes[pos].instanceHandle)
       /\ has_keys_
       /\ H.changes[pos].instanceHandle \in DOMAIN H.keyed
    THEN LET p_sample == H.changes[pos]
             h == p_sample.instanceHandle
             scrubbed == [H EXCEPT !.keyed[h].cache_changes =
                             SelectSeq(@, LAMBDA x : x # p_sample)]
         IN ReaderHistory_remove_change_nts(scrubbed, pos)
    ELSE ReaderHistory_remove_change_nts(H, pos)

\* DataReaderHistory::remove_change_sub(change, it)
remove_change_sub_it(H, c) ==
    LET K == remove_from_key(H, c)
        chit == find_change_nts(K.changes, c)
    IN IF chit = 0
       THEN Outcome(FALSE, K, c)
       ELSE Outcome(TRUE, remove_change_nts([K EXCEPT !.full = FALSE], chit), c)


\* ---------------------------------------------------------------- admission
add_received_change_never_full(H, c) ==
    IF H.full THEN Outcome(FALSE, H, c) ELSE add_change(H, c)

\* DataReaderHistory::add_received_change
add_received_change(H, c) ==
    IF H.full
    THEN Outcome(FALSE, H, c)
    ELSE LET a == add_change(H, c) IN
         IF a.ok
         THEN Outcome(TRUE,
                      [a.H EXCEPT !.full =
                          IF Len(a.H.changes) = to_history_attributes THEN TRUE ELSE @],
                      c)
         ELSE Outcome(FALSE, a.H, c)

add_received_change_with_key_no_push(H, c) == add_received_change(H, c)

add_received_change_with_key_no_full_check(H, c) ==
    LET a == add_change(H, c) IN
    Outcome(TRUE,
            [a.H EXCEPT !.full =
                IF Len(a.H.changes) = to_history_attributes THEN TRUE ELSE @,
                        !.keyed[c.instanceHandle].cache_changes = Append(@, c)],
            c)

add_received_change_with_key_push_front(H, c) ==
    IF H.full
    THEN Outcome(FALSE, H, c)
    ELSE LET a == add_change(H, c) IN
         Outcome(TRUE,
                 [a.H EXCEPT !.full =
                     IF Len(a.H.changes) = to_history_attributes THEN TRUE ELSE @,
                             !.keyed[c.instanceHandle].cache_changes = <<c>> \o @],
                 c)

\* DataReaderHistory::add_received_change_with_key; instance_changes is the list of
\* the entry find_key_for_change returned, the one of the change's handle.
add_received_change_with_key(H, c) ==
    IF H.full
    THEN Outcome(FALSE, H, c)
    ELSE LET a == add_change(H, c) IN
         IF a.ok
         THEN Outcome(TRUE,
                      [a.H EXCEPT !.full =
                          IF Len(a.H.changes) = to_history_attributes THEN TRUE ELSE @,
                                  !.keyed[c.instanceHandle].cache_changes = Append(@, c)],
                      c)
         ELSE Outcome(FALSE, a.H, c)

received_change_keep_all_no_key_ignores_missing(H, c, k) ==
    IF Len(H.changes) < resource_limited_qos_.max_samples
    THEN add_received_change(H, c)
    ELSE Outcome(FALSE, H, c)

\* DataReaderHistory::received_change_keep_all_no_key
received_change_keep_all_no_key(H, c, k) ==
    IF Len(H.changes) + k < resource_limited_qos_.max_samples
    THEN add_received_change(H, c)
    ELSE Outcome(FALSE, H, c)

received_change_keep_last_no_key_evicts_newest(H, c) ==
    LET r == IF Len(H.changes) < history_qos_.depth
             THEN Outcome(TRUE, H, c)
             ELSE remove_change_sub(H, H.changes[Len(H.changes)])
    IN IF r.ok THEN add_received_change(r.H, c) ELSE Outcome(FALSE, r.H, c)

\* DataReaderHistory::received_change_keep_last_no_key
received_change_keep_last_no_key(H, c) ==
    LET r == IF Len(H.changes) < history_qos_.depth
             THEN Outcome(TRUE, H, c)
             ELSE remove_change_sub(H, H.changes[1])
    IN IF r.ok THEN add_received_change(r.H, c) ELSE Outcome(FALSE, r.H, c)

received_change_keep_all_with_key_no_instance_limit(H, c, key, key_ok) ==
    LET f == find_key_for_change(H, c, key, key_ok) IN
    IF f.ok THEN add_received_change_with_key(f.H, f.change) ELSE f

\* DataReaderHistory::received_change_keep_all_with_key
received_change_keep_all_with_key(H, c, key, key_ok) ==
    LET f == find_key_for_change(H, c, key, key_ok) IN
    IF f.ok
    THEN LET instance_changes == f.H.keyed[f.change.instanceHandle].cache_changes IN
         IF Len(instance_changes) < resource_limited_qos_.max_samples_per_instance
         THEN add_received_change_with_key(f.H, f.change)
         ELSE Outcome(FALSE, f.H, f.change)
    ELSE f

received_change_keep_last_with_key_evicts_store_front(H, c, key, key_ok) ==
    LET f == find_key_for_change(H, c, key, key_ok) IN
    IF f.ok
    THEN LET instance_changes == f.H.keyed[f.change.instanceHandle].cache_changes
             r == IF Len(instance_changes) < history_qos_.depth
                  THEN Outcome(TRUE, f.H, f.change)
                  ELSE remove_change_sub(f.H, f.H.changes[1])
         IN IF r.ok
            THEN add_received_change_with_key(r.H, f.change)
            ELSE Outcome(FALSE, r.H, f.change)
    ELSE f

\* DataReaderHistory::received_change_keep_last_with_key
received_change_keep_last_with_key(H, c, key, key_ok) ==
    LET f == find_key_for_change(H, c, key, key_ok) IN
    IF f.ok
    THEN LET instance_changes == f.H.keyed[f.change.instanceHandle].cache_changes
             r == IF Len(instance_changes) < history_qos_.depth
                  THEN Outcome(TRUE, f.H, f.change)
                  ELSE remove_change_sub(f.H, instance_changes[1])
         IN IF r.ok
            THEN add_received_change_with_key(r.H, f.change)
            ELSE Outcome(FALSE, r.H, f.change)
    ELSE f

\* receive_fn_, bound by the constructor from (has_keys_, history kind)
receive_fn_(H, c, k, key, key_ok) ==
    IF ~has_keys_
    THEN IF qos.kind = KEEP_ALL_HISTORY_QOS
         THEN received_change_keep_all_no_key(H, c, k)
         ELSE received_change_keep_last_no_key(H, c)
    ELSE IF qos.kind = KEEP_ALL_HISTORY_QOS
         THEN received_change_keep_all_with_key(H, c, key, key_ok)
         ELSE received_change_keep_last_with_key(H, c, key, key_ok)


\* ------------------------------------------------------------------ actions
\* What is kept of a call: the operation, its return value, and for received_change
\* unknown_missing_changes_up_to, the handle of the change on return and the handles
\* whose entries the call erased.
Call(op, ret, c, k, H) ==
    [op |-> op, ret |-> ret, k |-> k,
     h |-> IF op = "received_change" THEN c.instanceHandle ELSE HANDLE_NIL,
     erased |-> IF op = "received_change"
                THEN (DOMAIN keyed_changes_) \ (DOMAIN H.keyed) ELSE {}]

Install(H) ==
    /\ m_changes' = H.changes
    /\ keyed_changes_' = H.keyed
    /\ m_isHistoryFull' = H.full

\* The handles a change can carry: any on a keyed topic, none on an unkeyed one.
ArrivingHandles == IF has_keys_ THEN {HANDLE_NIL} \cup Handles ELSE {HANDLE_NIL}

\* The changes a caller can hand to a removal: one of the store, or one that is
\* not in it (sequence number 0 stands for any such change).
RemovableChanges ==
    {m_changes[i] : i \in 1..Len(m_changes)}
        \cup {CacheChange(0, h) : h \in ArrivingHandles}

\* The reader is created with this history: mp_reader and mp_mutex are set.
Attach ==
    /\ ~attached
    /\ attached' = TRUE
    /\ UNCHANGED <<has_keys_, qos, m_changes, keyed_changes_, m_isHistoryFull,
                   next_deadline_us_, next_sn, removed, last, aux>>

\* DataReaderHistory::received_change(a_change, unknown_missing_changes_up_to)
received_change(h, k, key, key_ok) ==
    /\ next_sn <= MaxSn
    /\ LET a_change == CacheChange(next_sn, h) IN
       IF ~attached
       THEN /\ last' = Call("received_change", FALSE, a_change, k, Here)
            /\ UNCHANGED <<m_changes, keyed_changes_, m_isHistoryFull, next_sn>>
       ELSE LET r == receive_fn_(Here, a_change, k, key, key_ok) IN
            /\ Install(r.H)
            /\ last' = Call("received_change", r.ok, r.change, k, r.H)
            /\ next_sn' = next_sn + 1
    /\ UNCHANGED <<has_keys_, qos, attached, next_deadline_us_, removed>>

\* DataReaderHistory::remove_change_sub(change)
remove_change_sub_call(c) ==
    /\ IF ~attached
       THEN /\ last' = Call("remove_change_sub", FALSE, c, 0, Here)
            /\ UNCHANGED <<m_changes, keyed_changes_, m_isHistoryFull, removed>>
       ELSE LET r == remove_change_sub(Here, c) IN
            /\ Install(r.H)
            /\ last' = Call("remove_change_sub", r.ok, c, 0, r.H)
            /\ removed' = TRUE
    /\ UNCHANGED <<has_keys_, qos, attached, next_deadline_us_, next_sn>>

\* DataReaderHistory::remove_change_sub(change, it)
remove_change_sub_it_call(c) ==
    /\ IF ~attached
       THEN /\ last' = Call("remove_change_sub_it", FALSE, c, 0, Here)
            /\ UNCHANGED <<m_changes, keyed_changes_, m_isHistoryFull, removed>>
       ELSE LET r == remove_change_sub_it(Here, c) IN
            /\ Install(r.H)
            /\ last' = Call("remove_change_sub_it", r.ok, c, 0, r.H)
            /\ removed' = TRUE
    /\ UNCHANGED <<has_keys_, qos, attached, next_deadline_us_, next_sn>>

\* DataReaderHistory::remove_change_nts(removal, release), called by the reader
remove_change_nts_call(pos) ==
    /\ attached
    /\ Install(remove_change_nts(Here, pos))
    /\ last' = Call("remove_change_nts", pos <= Len(m_changes),
                    IF pos <= Len(m_changes) THEN m_changes[pos]
                    ELSE CacheChange(0, HANDLE_NIL), 0, Here)
    /\ removed' = TRUE
    /\ UNCHANGED <<has_keys_, qos, attached, next_deadline_us_, next_sn>>

\* DataReaderHistory::set_next_deadline(handle, next_deadline_us)
set_next_deadline(handle, t) ==
    /\ IF ~attached
       THEN /\ last' = Call("set_next_deadline", FALSE, CacheChange(0, handle), 0, Here)
            /\ UNCHANGED <<keyed_changes_, next_deadline_us_>>
       ELSE IF ~has_keys_
       THEN /\ next_deadline_us_' = t
            /\ last' = Call("set_next_deadline", TRUE, CacheChange(0, handle), 0, Here)
            /\ UNCHANGED keyed_changes_
       ELSE IF handle \notin DOMAIN keyed_changes_
       THEN /\ last' = Call("set_next_deadline", FALSE, CacheChange(0, handle), 0, Here)
            /\ UNCHANGED <<keyed_changes_, next_deadline_us_>>
       ELSE /\ keyed_changes_' = [keyed_changes_ EXCEPT ![handle].next_deadline_us = t]
            /\ last' = Call("set_next_deadline", TRUE, CacheChange(0, handle), 0, Here)
            /\ UNCHANGED next_deadline_us_
    /\ UNCHANGED <<has_keys_, qos, attached, m_changes, m_isHistoryFull, next_sn, removed>>

\* unknown_missing_changes_up_to is read by the unkeyed KEEP_ALL strategy alone
MissingValues ==
    IF ~has_keys_ /\ qos.kind = KEEP_ALL_HISTORY_QOS THEN 0..MaxMissing ELSE {0}

\* A sample arrives: with a handle, or (keyed topic) without one, and then the
\* payload encodes some key and getKey succeeds or fails.
Arrival ==
    \E h \in ArrivingHandles, k \in MissingValues :
        IF h = HANDLE_NIL /\ has_keys_
        THEN \E key \in Handles, key_ok \in BOOLEAN : received_change(h, k, key, key_ok)
        ELSE received_change(h, k, h, TRUE)

Receive == Arrival /\ UNCHANGED aux

RemoveSub == (\E c \in RemovableChanges : remove_change_sub_call(c)) /\ UNCHANGED aux

RemoveSubIt == (\E c \in RemovableChanges : remove_change_sub_it_call(c)) /\ UNCHANGED aux

RemoveNts ==
    (\E pos \in 1..(Len(m_changes) + 1) : remove_change_nts_call(pos)) /\ UNCHANGED aux

\* set_next_deadline writes next_deadline_us alone, which no admission or removal
\* reads; it is left out of Spec and belongs to the deadline specification.
Next ==
    \/ Attach
    \/ Receive
    \/ RemoveSub
    \/ RemoveSubIt
    \/ RemoveNts

Spec == Init /\ [][Next]_vars

TypeOK ==
    /\ has_keys_ \in BOOLEAN
    /\ qos \in QosValues
    /\ attached \in BOOLEAN
    /\ m_isHistoryFull \in BOOLEAN
    /\ next_sn \in 1..(MaxSn + 1)
    /\ DOMAIN keyed_changes_ \subseteq {HANDLE_NIL} \cup Handles


\* ------------------------------------------------------ the KEEP_LAST scenario
\* unkeyed KEEP_LAST histories of the scenario's depth
ScenarioConfigurations ==
    {[has_keys |-> FALSE,
      qos |-> [kind |-> KEEP_LAST_HISTORY_QOS, depth |-> ScenarioDepth,
               max_samples |-> m, max_instances |-> 0, max_samples_per_instance |-> 0]] :
        m \in 0..MaxSamplesQos}

SpecScenario == Construct(ScenarioConfigurations) /\ [][Next]_vars

\* ---------------------------------------------------------------- deadlines
min_element_first_entry(keyed) ==
    CHOOSE h \in DOMAIN keyed : \A g \in DOMAIN keyed : h <= g

\* std::min_element over the table with the comparison of next_deadline_us: the
\* first entry, in map order, that no entry is smaller than
min_element(keyed) ==
    CHOOSE h \in DOMAIN keyed :
        \A g \in DOMAIN keyed :
            \/ keyed[h].next_deadline_us < keyed[g].next_deadline_us
            \/ keyed[h].next_deadline_us = keyed[g].next_deadline_us /\ h <= g

\* DataReaderHistory::get_next_deadline(handle, next_deadline_us): what the call can
\* hand back.  On an empty table min_element returns end(), which is dereferenced:
\* the handle and the time read there are anything.
get_next_deadline ==
    IF ~attached
    THEN {[NoResult EXCEPT !.op = "get_next_deadline"]}
    ELSE IF ~has_keys_
    THEN {[NoResult EXCEPT !.op = "get_next_deadline", !.ret = TRUE,
                           !.time = next_deadline_us_]}
    ELSE IF DOMAIN keyed_changes_ = {}
    THEN {[NoResult EXCEPT !.op = "get_next_deadline", !.ret = TRUE, !.handle = h,
                           !.time = t, !.ub = TRUE] :
             h \in {HANDLE_NIL} \cup Handles, t \in 0..MaxDeadline}
    ELSE LET min == min_element(keyed_changes_) IN
         {[NoResult EXCEPT !.op = "get_next_deadline", !.ret = TRUE, !.handle = min,
                           !.time = keyed_changes_[min].next_deadline_us]}

\* The snapshots the deadlines are exercised on: an unkeyed history, and keyed
\* KEEP_LAST histories of depth 1 with room for any number of instances or for one.
DeadlineConfigurations ==
    {cfg \in Configurations :
        /\ cfg.qos.kind = KEEP_LAST_HISTORY_QOS /\ cfg.qos.depth = 1
        /\ cfg.qos.max_samples = 0 /\ cfg.qos.max_samples_per_instance = 0
        /\ cfg.qos.max_instances \in {0, 1}}

GetDeadline ==
    /\ \E r \in get_next_deadline : result' = r
    /\ UNCHANGED <<has_keys_, qos, attached, m_changes, keyed_changes_, m_isHistoryFull,
                   next_deadline_us_, next_sn, removed, last, written, pre, iter, locators, threads>>

SetDeadline ==
    \E handle \in ArrivingHandles, t \in 1..MaxDeadline :
        /\ set_next_deadline(handle, t)
        /\ written' = IF attached /\ has_keys_ /\ handle \in DOMAIN keyed_changes_
                      THEN [written EXCEPT ![handle] = t] ELSE written
        /\ result' = NoResult
        /\ UNCHANGED <<pre, iter, locators, threads>>

DeadlineReceive ==
    /\ next_sn <= MaxDeadlineSn
    /\ Arrival
    /\ result' = NoResult
    /\ UNCHANGED <<written, pre, iter, locators, threads>>

\* a stored sample is taken
DeadlineRemove ==
    /\ \E i \in 1..Len(m_changes) : remove_change_sub_call(m_changes[i])
    /\ result' = NoResult
    /\ UNCHANGED <<written, pre, iter, locators, threads>>

NextDeadline ==
    \/ Attach
    \/ DeadlineReceive
    \/ DeadlineRemove
    \/ SetDeadline
    \/ GetDeadline

SpecDeadline == Construct(DeadlineConfigurations) /\ [][NextDeadline]_vars

\* ------------------------------------------------------------------ queries
lower_bound(keyed, handle) ==
    LET from == {g \in DOMAIN keyed : ~(g < handle)} IN
    IF from = {} THEN {} ELSE {CHOOSE h \in from : \A g \in from : ~(g < h)}

\* std::upper_bound over the table (sorted by handle) with comp(h, it) = h < it.first:
\* the first entry the handle is smaller than; no element stands for end()
upper_bound(keyed, handle) ==
    LET above == {g \in DOMAIN keyed : handle < g} IN
    IF above = {} THEN {} ELSE {CHOOSE h \in above : \A g \in above : ~(g < h)}

\* the pair a lookup that finds nothing returns: { false, {InstanceHandle_t(), nullptr} }
NotFound(handle, exact) ==
    [NoResult EXCEPT !.op = "lookup_instance", !.arg = handle, !.exact = exact]

\* DataReaderHistory::lookup_instance(handle, exact)
lookup_instance(handle, exact) ==
    IF ~has_keys_
    THEN IF isDefined(handle) THEN NotFound(handle, exact)
         ELSE IF exact THEN NotFound(handle, exact)
         ELSE [NotFound(handle, exact) EXCEPT !.ret = TRUE, !.handle = FictitiousHandle,
                                              !.target = "m_changes", !.changes = m_changes]
    ELSE LET it == IF exact
                   THEN (IF handle \in DOMAIN keyed_changes_ THEN {handle} ELSE {})
                   ELSE upper_bound(keyed_changes_, handle)
         IN IF it # {}
            THEN LET first == CHOOSE h \in it : TRUE IN
                 [NotFound(handle, exact) EXCEPT
                     !.ret = TRUE, !.handle = first, !.target = "cache_changes",
                     !.changes = keyed_changes_[first].cache_changes]
            ELSE NotFound(handle, exact)

\* The snapshots the lookups are exercised on: no limit on samples, any number of
\* instances or two.
QueryConfigurations ==
    {cfg \in Configurations :
        /\ cfg.qos.depth = 1
        /\ cfg.qos.max_samples = 0 /\ cfg.qos.max_samples_per_instance = 0
        /\ cfg.qos.max_instances \in {0, 2}}

LookupInstance ==
    /\ \E handle \in {HANDLE_NIL} \cup Handles, exact \in BOOLEAN :
           result' = lookup_instance(handle, exact)
    /\ UNCHANGED <<has_keys_, qos, attached, m_changes, keyed_changes_, m_isHistoryFull,
                   next_deadline_us_, next_sn, removed, last, written, pre, iter, locators, threads>>

QueryReceive ==
    /\ next_sn <= MaxQuerySn
    /\ Arrival
    /\ result' = NoResult
    /\ UNCHANGED <<written, pre, iter, locators, threads>>

QueryRemove ==
    /\ \E c \in RemovableChanges : remove_change_sub_call(c)
    /\ result' = NoResult
    /\ UNCHANGED <<written, pre, iter, locators, threads>>

NextQuery ==
    \/ Attach
    \/ QueryReceive
    \/ QueryRemove
    \/ LookupInstance

SpecQuery == Construct(QueryConfigurations) /\ [][NextQuery]_vars

\* ------------------------------------------------------ before the attachment
\* RTPSReader::nextUntakenCache: whether the reader has a change the user has not
\* read; it has none when the store is empty
nextUntakenCache == IF m_changes = <<>> THEN {FALSE} ELSE BOOLEAN

\* DataReaderHistory::get_first_untaken_info(info): what the call can hand back.  It
\* locks *mp_mutex without testing it: before the attachment a null pointer is
\* dereferenced and the outcome is anything.
get_first_untaken_info ==
    IF ~attached
    THEN {[NoResult EXCEPT !.op = "get_first_untaken_info", !.ret = b, !.ub = TRUE] :
             b \in BOOLEAN}
    ELSE {[NoResult EXCEPT !.op = "get_first_untaken_info", !.ret = b] :
             b \in nextUntakenCache}

GetFirstUntakenInfo ==
    /\ \E r \in get_first_untaken_info : result' = r
    /\ UNCHANGED <<has_keys_, qos, attached, m_changes, keyed_changes_, m_isHistoryFull,
                   next_deadline_us_, next_sn, removed, last, written, pre, iter, locators, threads>>

\* every public entry point, on a history no reader is ever attached to
NextUnattached ==
    \/ Receive
    \/ RemoveSub
    \/ RemoveSubIt
    \/ SetDeadline
    \/ GetDeadline
    \/ GetFirstUntakenInfo
    \/ LookupInstance

SpecUnattached == Init /\ [][NextUnattached]_vars

\* --------------------------------------------------------------- call pairs
\* the sample the last received_change delivered, as the call left it
Delivered == CacheChange(next_sn - 1, last.h)

\* A sample arrives; the history and the arguments at the call are kept.
CallsReceive ==
    \E h \in ArrivingHandles, k \in MissingValues :
        \E key \in (IF h = HANDLE_NIL /\ has_keys_ THEN Handles ELSE {h}),
           key_ok \in (IF h = HANDLE_NIL /\ has_keys_ THEN BOOLEAN ELSE {TRUE}) :
            /\ received_change(h, k, key, key_ok)
            /\ pre' = IF attached
                      THEN [phase |-> "received", H |-> Here, arrived |-> h,
                            key |-> key, key_ok |-> key_ok, h |-> last'.h]
                      ELSE NoPre
            /\ UNCHANGED <<result, written, iter, locators, threads>>

\* A removal; the removal of the sample the call before it accepted is marked.
CallsRemove ==
    \E c \in RemovableChanges :
        /\ remove_change_sub_call(c)
        /\ pre' = IF /\ pre.phase = "received" /\ last.op = "received_change"
                     /\ last.ret /\ c = Delivered
                  THEN [pre EXCEPT !.phase = "removed"]
                  ELSE NoPre
        /\ UNCHANGED <<result, written, iter, locators, threads>>

NextCalls ==
    \/ Attach
    \/ CallsReceive
    \/ CallsRemove

SpecCalls == Init /\ [][NextCalls]_vars

\* ---------------------------------------------------------------- iterators
\* end(): no element is designated
End == CacheChange(0, HANDLE_NIL)

\* a valid iterator at position pos of a list
Iterator(list, handle, pos) ==
    [list |-> list, handle |-> handle, pos |-> pos, valid |-> TRUE]

\* the list an iterator runs over: the change store or an entry's cache_changes
ListOf(H, it) ==
    IF it.list = "m_changes" THEN H.changes
    ELSE IF it.list = "cache_changes" /\ it.handle \in DOMAIN H.keyed
    THEN H.keyed[it.handle].cache_changes
    ELSE <<>>

\* the element an iterator designates
Deref(H, it) ==
    IF it.pos \in 1..Len(ListOf(H, it)) THEN ListOf(H, it)[it.pos] ELSE End

\* the position of the change in the entry of its handle, 0 when it is not there
PositionInEntry(keyed, c) ==
    IF c.instanceHandle \in DOMAIN keyed
    THEN FirstIndex(keyed[c.instanceHandle].cache_changes,
                    LAMBDA x : x.sequenceNumber = c.sequenceNumber)
    ELSE 0

remove_change_sub_iterator_unkeyed_keeps_it(H, c, it) ==
    {[aborted |-> FALSE,
      it |-> IF find_change_nts(H.changes, c) # 0 /\ it.list = "m_changes"
             THEN [it EXCEPT !.valid = FALSE] ELSE it]}

\* DataReaderHistory::remove_change_sub(change, it): what becomes of the caller's
\* iterator.  On a keyed topic the sample found in its entry is compared with it
\* under assert (a build with assertions stops there when they differ, a build
\* without them goes on) and it becomes the result of the entry's erase; on an
\* unkeyed topic it becomes the result of the store's erase.  A store iterator that
\* is not assigned is invalidated by the store's erase when it is at or after the
\* erased position.
remove_change_sub_iterator(H, c, it) ==
    LET f == find_key(H.keyed, c.instanceHandle)
        q == IF has_keys_ /\ f.ok THEN PositionInEntry(f.keyed, c) ELSE 0
        chit == find_change_nts(remove_from_key(H, c).changes, c)
        in_entry == Iterator("cache_changes", c.instanceHandle, q)
    IN IF q # 0
       THEN {[aborted |-> FALSE, it |-> in_entry]}
                \cup (IF it = in_entry THEN {} ELSE {[aborted |-> TRUE, it |-> it]})
       ELSE IF chit = 0
       THEN {[aborted |-> FALSE, it |-> it]}
       ELSE IF ~has_keys_
       THEN {[aborted |-> FALSE, it |-> Iterator("m_changes", HANDLE_NIL, chit)]}
       ELSE {[aborted |-> FALSE,
              it |-> [it EXCEPT !.valid = ~(it.list = "m_changes" /\ it.pos >= chit)]]}

\* The iterators a caller can hold for a change: at the change in the store, at the
\* change in the list of its instance (the list lookup_instance hands out on a keyed
\* topic), or the store's end() for a change that is not in the store.
IteratorsAt(c) ==
    LET p == find_change_nts(m_changes, c)
        q == IF has_keys_ THEN PositionInEntry(keyed_changes_, c) ELSE 0
    IN IF p = 0
       THEN {Iterator("m_changes", HANDLE_NIL, Len(m_changes) + 1)}
       ELSE {Iterator("m_changes", HANDLE_NIL, p)}
                \cup (IF q # 0 THEN {Iterator("cache_changes", c.instanceHandle, q)}
                      ELSE {})

\* remove_change_sub(change, it) with the iterator the caller holds; a failed
\* assertion ends the program
IteratorRemove ==
    /\ ~iter.aborted
    /\ \E c \in RemovableChanges : \E it \in IteratorsAt(c) :
         \E o \in (IF attached THEN remove_change_sub_iterator(Here, c, it)
                   ELSE {[aborted |-> FALSE, it |-> it]}) :
            IF o.aborted
            THEN /\ iter' = [NoIterator EXCEPT !.op = "remove_change_sub_it",
                                               !.aborted = TRUE, !.passed = it.list]
                 /\ UNCHANGED <<has_keys_, qos, attached, m_changes, keyed_changes_,
                                m_isHistoryFull, next_deadline_us_, next_sn, removed,
                                last>>
            ELSE /\ remove_change_sub_it_call(c)
                 /\ iter' = [op |-> "remove_change_sub_it", ret |-> last'.ret,
                             aborted |-> FALSE, list |-> o.it.list,
                             handle |-> o.it.handle, pos |-> o.it.pos,
                             valid |-> o.it.valid, passed |-> it.list,
                             next |-> Deref(Here, [it EXCEPT !.pos = @ + 1])]
    /\ UNCHANGED <<result, written, pre, locators, threads>>

IteratorReceive ==
    /\ ~iter.aborted
    /\ next_sn <= MaxIteratorSn
    /\ Arrival
    /\ iter' = NoIterator
    /\ UNCHANGED <<result, written, pre, locators, threads>>

NextIterator ==
    \/ Attach
    \/ IteratorReceive
    \/ IteratorRemove

SpecIterator == Init /\ [][NextIterator]_vars

\* ------------------------------------------------------------ ReaderLocator
Guids == {GUID_t(p, e) : p \in 0..MaxGuidPrefix, e \in 0..MaxEntityId}

\* ResourceLimitedVector<Locator_t>: the lists of up to MaxLocators locators
LocatorLists ==
    UNION {[1..n -> 1..NumLocators] : n \in 0..MaxLocators}

\* ReaderLocator::ReaderLocator: the owner is data-sharing compatible or not
ReaderLocator(is_datasharing_compatible) ==
    [NoReaderLocator EXCEPT
        !.constructed = TRUE,
        !.datasharing_notifier_ =
            IF is_datasharing_compatible THEN "disabled" ELSE "nullptr"]

ReaderLocator_start_rebinds(L, remote_guid, unicast_locators, multicast_locators, expects_inline_qos, is_datasharing, intraprocess) ==
    [ret |-> TRUE,
     L |-> [L EXCEPT !.expects_inline_qos_ = expects_inline_qos,
                     !.guid_as_vector_ = <<remote_guid>>,
                     !.guid_prefix_as_vector_ = <<remote_guid.guidPrefix>>,
                     !.remote_guid = remote_guid,
                     !.is_local_reader_ = intraprocess,
                     !.local_reader_ = "nullptr",
                     !.enabled = TRUE]]

\* ReaderLocator::start; intraprocess is what
\* RTPSDomainImpl::should_intraprocess_between answers for the two GUIDs
ReaderLocator_start(L, remote_guid, unicast_locators, multicast_locators, expects_inline_qos, is_datasharing, intraprocess) ==
    IF L.remote_guid = c_Guid_Unknown
    THEN [ret |-> TRUE,
          L |-> [L EXCEPT
                    !.expects_inline_qos_ = expects_inline_qos,
                    !.guid_as_vector_ = <<remote_guid>>,
                    !.guid_prefix_as_vector_ = <<remote_guid.guidPrefix>>,
                    !.remote_guid = remote_guid,
                    !.is_local_reader_ = intraprocess,
                    !.local_reader_ = "nullptr",
                    !.unicast = IF ~intraprocess /\ ~is_datasharing
                                THEN unicast_locators ELSE @,
                    !.multicast = IF ~intraprocess /\ ~is_datasharing
                                  THEN multicast_locators ELSE @,
                    !.enabled = TRUE,
                    !.datasharing_notifier_ = IF is_datasharing THEN "enabled" ELSE @]]
    ELSE [ret |-> FALSE, L |-> L]

\* ReaderLocator::is_datasharing_reader
is_datasharing_reader(L) == L.datasharing_notifier_ = "enabled"

\* ReaderLocator::update
ReaderLocator_update(L, unicast_locators, multicast_locators, expects_inline_qos) ==
    LET qos_changed == L.expects_inline_qos_ # expects_inline_qos
        lists_changed == L.unicast # unicast_locators \/ L.multicast # multicast_locators
        assign == lists_changed /\ ~L.is_local_reader_ /\ ~is_datasharing_reader(L)
    IN [ret |-> qos_changed \/ lists_changed,
        L |-> [L EXCEPT !.expects_inline_qos_ = expects_inline_qos,
                        !.unicast = IF assign THEN unicast_locators ELSE @,
                        !.multicast = IF assign THEN multicast_locators ELSE @,
                        !.enabled = IF lists_changed THEN TRUE ELSE @]]

\* ReaderLocator::stop(): the reset
ReaderLocator_stop_all(L) ==
    [L EXCEPT !.datasharing_notifier_ = IF @ # "nullptr" THEN "disabled" ELSE @,
              !.enabled = FALSE,
              !.multicast = <<>>,
              !.unicast = <<>>,
              !.remote_guid = c_Guid_Unknown,
              !.guid_as_vector_ = <<c_Guid_Unknown>>,
              !.guid_prefix_as_vector_ = <<c_GuidPrefix_Unknown>>,
              !.expects_inline_qos_ = FALSE,
              !.is_local_reader_ = FALSE,
              !.local_reader_ = "nullptr"]

\* ReaderLocator::stop(remote_guid)
ReaderLocator_stop(L, remote_guid) ==
    IF L.remote_guid = remote_guid
    THEN [ret |-> TRUE, L |-> ReaderLocator_stop_all(L)]
    ELSE [ret |-> FALSE, L |-> L]

\* ReaderLocator::send: the locator list the message goes to, "none" when nothing
\* is sent, and what the call can return (sendSync blocks and succeeds or not)
ReaderLocator_send(L) ==
    IF L.remote_guid # c_Guid_Unknown /\ ~L.is_local_reader_
    THEN {[sent |-> IF Len(L.unicast) > 0 THEN "unicast" ELSE "multicast", ret |-> b] :
             b \in BOOLEAN}
    ELSE {[sent |-> "none", ret |-> TRUE]}

\* ReaderLocator::local_reader: the reader is looked up once (found or not) and kept
ReaderLocator_local_reader(L) ==
    IF L.local_reader_ = "nullptr"
    THEN {[L EXCEPT !.local_reader_ = r] : r \in {"nullptr", "reader"}}
    ELSE {L}

\* what is kept of a call on the ReaderLocator
LocatorCall(op, guid, ret, sent) ==
    [op |-> op, guid |-> guid, ret |-> ret, sent |-> sent,
     prev |-> [op |-> locator_call.op, guid |-> locator_call.guid,
               ret |-> locator_call.ret]]

History_and_queries_unchanged ==
    UNCHANGED <<has_keys_, qos, attached, m_changes, keyed_changes_, m_isHistoryFull,
                next_deadline_us_, next_sn, removed, last, result, written, pre, iter,
                threads>>

\* The writer constructs the ReaderLocator.
LocatorConstruct ==
    /\ ~reader_locator.constructed
    /\ \E is_datasharing_compatible \in BOOLEAN :
           reader_locator' = ReaderLocator(is_datasharing_compatible)
    /\ UNCHANGED locator_call
    /\ History_and_queries_unchanged

\* A reader is matched.  The writer asks for data sharing only when it has a
\* notifier (it is data-sharing compatible).
LocatorStart ==
    /\ reader_locator.constructed
    /\ \E remote_guid \in Guids, unicast_locators \in LocatorLists,
          multicast_locators \in LocatorLists, expects_inline_qos \in BOOLEAN,
          is_datasharing \in BOOLEAN, intraprocess \in BOOLEAN :
           /\ is_datasharing => reader_locator.datasharing_notifier_ # "nullptr"
           /\ LET r == ReaderLocator_start(reader_locator, remote_guid, unicast_locators,
                                           multicast_locators, expects_inline_qos,
                                           is_datasharing, intraprocess)
              IN /\ reader_locator' = r.L
                 /\ locator_call' = LocatorCall("start", remote_guid, r.ret, "none")
    /\ History_and_queries_unchanged

LocatorUpdate ==
    /\ reader_locator.constructed
    /\ \E unicast_locators \in LocatorLists, multicast_locators \in LocatorLists,
          expects_inline_qos \in BOOLEAN :
           LET r == ReaderLocator_update(reader_locator, unicast_locators,
                                         multicast_locators, expects_inline_qos)
           IN /\ reader_locator' = r.L
              /\ locator_call' = LocatorCall("update", c_Guid_Unknown, r.ret, "none")
    /\ History_and_queries_unchanged

LocatorStop ==
    /\ reader_locator.constructed
    /\ \E remote_guid \in Guids :
           LET r == ReaderLocator_stop(reader_locator, remote_guid)
           IN /\ reader_locator' = r.L
              /\ locator_call' = LocatorCall("stop", remote_guid, r.ret, "none")
    /\ History_and_queries_unchanged

LocatorSend ==
    /\ reader_locator.constructed
    /\ \E r \in ReaderLocator_send(reader_locator) :
           locator_call' = LocatorCall("send", c_Guid_Unknown, r.ret, r.sent)
    /\ UNCHANGED reader_locator
    /\ History_and_queries_unchanged

LocatorLocalReader ==
    /\ reader_locator.constructed
    /\ \E L \in ReaderLocator_local_reader(reader_locator) : reader_locator' = L
    /\ locator_call' = LocatorCall("local_reader", c_Guid_Unknown, FALSE, "none")
    /\ History_and_queries_unchanged

\* the history a writer's locators have nothing to do with: one unkeyed history
LocatorConfigurations == {cfg \in ScenarioConfigurations : cfg.qos.max_samples = 0}

NextLocator ==
    \/ LocatorConstruct
    \/ LocatorStart
    \/ LocatorUpdate
    \/ LocatorStop
    \/ LocatorSend
    \/ LocatorLocalReader

SpecLocator == Construct(LocatorConfigurations) /\ [][NextLocator]_vars

\* ------------------------------------------------------------------ threads
\* The operations step by step, as two threads execute them: the RTPS receive thread
\* delivers and removes samples, the application thread queries.  Both exist once
\* the reader is created, so every call here is made on the attached history.

can_lock_non_recursive(t) == mutex.owner = NoThread

\* RecursiveTimedMutex: lock() returns when no other thread owns the mutex
can_lock(t) == mutex.owner \in {NoThread, t}

\* std::lock_guard: the constructor locks
lock(t) == [owner |-> t, count |-> mutex.count + 1]

\* std::lock_guard: the destructor unlocks
unlock(t) ==
    IF mutex.count = 1 THEN [owner |-> NoThread, count |-> 0]
    ELSE [mutex EXCEPT !.count = @ - 1]

Goto(t, label) == pc' = [pc EXCEPT ![t] = label]

ThreadFrame == <<has_keys_, qos, attached, next_deadline_us_, removed, last, result,
                 written, pre, iter, locators>>

History_unchanged == UNCHANGED <<m_changes, keyed_changes_, m_isHistoryFull>>

\* The bound strategy up to its decision: the instance is resolved (the table may
\* change), then the sample is added, added after an eviction, or refused.
policy(H, c, key, key_ok) ==
    IF ~has_keys_
    THEN IF qos.kind = KEEP_ALL_HISTORY_QOS
         THEN [H |-> H, change |-> c, victim |-> c,
               next |-> IF Len(H.changes) < resource_limited_qos_.max_samples
                        THEN "add" ELSE "refuse"]
         ELSE IF Len(H.changes) < history_qos_.depth
              THEN [H |-> H, change |-> c, victim |-> c, next |-> "add"]
              ELSE [H |-> H, change |-> c, victim |-> H.changes[1], next |-> "evict"]
    ELSE LET f == find_key_for_change(H, c, key, key_ok) IN
         IF ~f.ok
         THEN [H |-> f.H, change |-> f.change, victim |-> c, next |-> "refuse"]
         ELSE LET instance_changes == f.H.keyed[f.change.instanceHandle].cache_changes
                  limit == IF qos.kind = KEEP_ALL_HISTORY_QOS
                           THEN resource_limited_qos_.max_samples_per_instance
                           ELSE history_qos_.depth
              IN IF Len(instance_changes) < limit
                 THEN [H |-> f.H, change |-> f.change, victim |-> c, next |-> "add"]
                 ELSE IF qos.kind = KEEP_ALL_HISTORY_QOS
                 THEN [H |-> f.H, change |-> f.change, victim |-> c, next |-> "refuse"]
                 ELSE [H |-> f.H, change |-> f.change, victim |-> instance_changes[1],
                       next |-> "evict"]

\* received_change is called: the attachment test passes
ReceiveCall ==
    /\ pc["rtps"] = "idle" /\ attached
    /\ next_sn <= MaxThreadSn
    /\ \E h \in ArrivingHandles :
           \E key \in (IF h = HANDLE_NIL /\ has_keys_ THEN Handles ELSE {h}),
              key_ok \in (IF h = HANDLE_NIL /\ has_keys_ THEN BOOLEAN ELSE {TRUE}) :
               frame' = [frame EXCEPT !["rtps"] =
                            [NoFrame EXCEPT !.op = "received_change",
                                            !.change = CacheChange(next_sn, h),
                                            !.key = key, !.key_ok = key_ok]]
    /\ Goto("rtps", "rc_lock")
    /\ History_unchanged
    /\ UNCHANGED <<ThreadFrame, next_sn, mutex, seen>>

\* received_change: lock_guard guard(*mp_mutex)
ReceiveLock ==
    /\ pc["rtps"] = "rc_lock" /\ can_lock("rtps")
    /\ mutex' = lock("rtps")
    /\ frame' = [frame EXCEPT !["rtps"].entered = Here]
    /\ Goto("rtps", "rc_policy")
    /\ History_unchanged
    /\ UNCHANGED <<ThreadFrame, next_sn, seen>>

\* receive_fn_ up to the decision
ReceivePolicy ==
    /\ pc["rtps"] = "rc_policy"
    /\ LET f == frame["rtps"]
           d == policy(Here, f.change, f.key, f.key_ok)
       IN /\ Install(d.H)
          /\ frame' = [frame EXCEPT !["rtps"].change = d.change,
                                    !["rtps"].victim = d.victim,
                                    !["rtps"].nested = (d.next = "evict")]
          /\ Goto("rtps", CASE d.next = "add" -> "rc_add"
                            [] d.next = "evict" -> "rs_lock"
                            [] OTHER -> "rc_unlock")
    /\ UNCHANGED <<ThreadFrame, next_sn, mutex, seen>>

\* remove_change_sub(change) is called by the reader: the attachment test passes
RemoveCall ==
    /\ pc["rtps"] = "idle" /\ attached
    /\ \E c \in RemovableChanges :
           frame' = [frame EXCEPT !["rtps"] =
                        [NoFrame EXCEPT !.op = "remove_change_sub", !.victim = c]]
    /\ Goto("rtps", "rs_lock")
    /\ History_unchanged
    /\ UNCHANGED <<ThreadFrame, next_sn, mutex, seen>>

\* remove_change_sub: lock_guard guard(*mp_mutex), by the reader's call or inside
\* received_change, whose guard already holds the mutex
RemoveLock ==
    /\ pc["rtps"] = "rs_lock" /\ can_lock("rtps")
    /\ mutex' = lock("rtps")
    /\ frame' = IF frame["rtps"].nested THEN frame
                ELSE [frame EXCEPT !["rtps"].entered = Here]
    /\ Goto("rtps", "rs_key")
    /\ History_unchanged
    /\ UNCHANGED <<ThreadFrame, next_sn, seen>>

\* remove_change_sub: the sample is erased from its instance's list
RemoveKey ==
    /\ pc["rtps"] = "rs_key"
    /\ Install(remove_from_key(Here, frame["rtps"].victim))
    /\ Goto("rtps", "rs_store")
    /\ UNCHANGED <<ThreadFrame, next_sn, mutex, frame, seen>>

\* remove_change_sub: remove_change(change), and the flag is cleared
RemoveStore ==
    /\ pc["rtps"] = "rs_store"
    /\ LET r == remove_change(Here, frame["rtps"].victim) IN
       /\ Install(IF r.ok THEN [r.H EXCEPT !.full = FALSE] ELSE r.H)
       /\ frame' = [frame EXCEPT !["rtps"].ret = r.ok]
    /\ Goto("rtps", "rs_unlock")
    /\ UNCHANGED <<ThreadFrame, next_sn, mutex, seen>>

\* remove_change_sub returns: its guard unlocks
RemoveUnlock ==
    /\ pc["rtps"] = "rs_unlock"
    /\ mutex' = unlock("rtps")
    /\ IF frame["rtps"].nested
       THEN /\ frame' = [frame EXCEPT !["rtps"].nested = FALSE]
            /\ Goto("rtps", IF frame["rtps"].ret THEN "rc_add" ELSE "rc_unlock")
       ELSE /\ frame' = [frame EXCEPT !["rtps"] = NoFrame]
            /\ Goto("rtps", "idle")
    /\ History_unchanged
    /\ UNCHANGED <<ThreadFrame, next_sn, seen>>

\* add_received_change(_with_key): the full test, add_change and the flag
ReceiveAdd ==
    /\ pc["rtps"] = "rc_add"
    /\ IF m_isHistoryFull
       THEN /\ History_unchanged
            /\ frame' = [frame EXCEPT !["rtps"].ret = FALSE]
            /\ Goto("rtps", "rc_unlock")
       ELSE /\ Install(add_received_change(Here, frame["rtps"].change).H)
            /\ frame' = [frame EXCEPT !["rtps"].ret = TRUE]
            /\ Goto("rtps", IF has_keys_ THEN "rc_push" ELSE "rc_unlock")
    /\ UNCHANGED <<ThreadFrame, next_sn, mutex, seen>>

\* add_received_change_with_key: instance_changes.push_back(a_change)
ReceivePush ==
    /\ pc["rtps"] = "rc_push"
    /\ keyed_changes_' =
           [keyed_changes_ EXCEPT ![frame["rtps"].change.instanceHandle].cache_changes =
               Append(@, frame["rtps"].change)]
    /\ Goto("rtps", "rc_unlock")
    /\ UNCHANGED <<ThreadFrame, next_sn, mutex, frame, seen, m_changes, m_isHistoryFull>>

\* received_change returns: its guard unlocks
ReceiveUnlock ==
    /\ pc["rtps"] = "rc_unlock"
    /\ mutex' = unlock("rtps")
    /\ frame' = [frame EXCEPT !["rtps"] = NoFrame]
    /\ next_sn' = next_sn + 1
    /\ Goto("rtps", "idle")
    /\ History_unchanged
    /\ UNCHANGED <<ThreadFrame, seen>>

\* the receive thread is between the lock and the unlock of an operation and the
\* history is not as the operation found it
Intermediate ==
    /\ pc["rtps"] \in {"rc_policy", "rc_add", "rc_push", "rc_unlock",
                       "rs_key", "rs_store", "rs_unlock"}
          \/ (pc["rtps"] = "rs_lock" /\ frame["rtps"].nested)
    /\ Here # frame["rtps"].entered

\* lookup_instance(handle, exact): the table (or the store) is read, without a lock
Lookup ==
    /\ pc["app"] = "idle" /\ attached
    /\ seen' = [op |-> "lookup_instance", torn |-> Intermediate]
    /\ History_unchanged
    /\ UNCHANGED <<ThreadFrame, next_sn, mutex, frame, pc>>

\* get_next_deadline or get_first_untaken_info is called
QueryCall ==
    /\ pc["app"] = "idle" /\ attached
    /\ \E op \in {"get_next_deadline", "get_first_untaken_info"} :
           frame' = [frame EXCEPT !["app"] = [NoFrame EXCEPT !.op = op]]
    /\ Goto("app", "q_lock")
    /\ History_unchanged
    /\ UNCHANGED <<ThreadFrame, next_sn, mutex, seen>>

\* the query's lock_guard
QueryLock ==
    /\ pc["app"] = "q_lock" /\ can_lock("app")
    /\ mutex' = lock("app")
    /\ Goto("app", "q_read")
    /\ History_unchanged
    /\ UNCHANGED <<ThreadFrame, next_sn, frame, seen>>

\* the query reads the table, or asks the reader
QueryRead ==
    /\ pc["app"] = "q_read"
    /\ seen' = [op |-> frame["app"].op, torn |-> Intermediate]
    /\ Goto("app", "q_unlock")
    /\ History_unchanged
    /\ UNCHANGED <<ThreadFrame, next_sn, mutex, frame>>

\* the query returns: its guard unlocks
QueryUnlock ==
    /\ pc["app"] = "q_unlock"
    /\ mutex' = unlock("app")
    /\ frame' = [frame EXCEPT !["app"] = NoFrame]
    /\ Goto("app", "idle")
    /\ History_unchanged
    /\ UNCHANGED <<ThreadFrame, next_sn, seen>>

\* the steps that carry on an operation of the receive thread
ReceiverProgress ==
    \/ ReceiveLock \/ ReceivePolicy \/ ReceiveAdd \/ ReceivePush \/ ReceiveUnlock
    \/ RemoveLock \/ RemoveKey \/ RemoveStore \/ RemoveUnlock

\* the steps that carry on an operation of the application thread
ApplicationProgress == QueryLock \/ QueryRead \/ QueryUnlock

\* The snapshots the threads run on: one per strategy, depth 1, and one sample of
\* room in the KEEP_ALL store.
ThreadConfigurations ==
    {cfg \in Configurations :
        /\ cfg.qos.depth = 1
        /\ cfg.qos.max_instances = 0 /\ cfg.qos.max_samples_per_instance = 0
        /\ cfg.qos.max_samples = IF cfg.qos.kind = KEEP_ALL_HISTORY_QOS THEN 1 ELSE 0}

NextThreads ==
    \/ Attach
    \/ ReceiveCall \/ ReceiveLock \/ ReceivePolicy \/ ReceiveAdd \/ ReceivePush
    \/ ReceiveUnlock
    \/ RemoveCall \/ RemoveLock \/ RemoveKey \/ RemoveStore \/ RemoveUnlock
    \/ Lookup
    \/ QueryCall \/ QueryLock \/ QueryRead \/ QueryUnlock

\* Scheduling is fair: a thread that can take a step of its operation again and
\* again, the acquisition of the mutex included, takes it.
SpecThreads ==
    /\ Construct(ThreadConfigurations)
    /\ [][NextThreads]_vars
    /\ SF_vars(ReceiverProgress)
    /\ SF_vars(ApplicationProgress)

\* ------------------------------------------------------- shared definitions
Range(s) == {s[i] : i \in 1..Len(s)}

Count(s, x) == Cardinality({i \in 1..Len(s) : s[i] = x})

\* the number of occurrences of x in the lists of the entries hs
RECURSIVE CountInEntries(_, _)
CountInEntries(hs, x) ==
    IF hs = {} THEN 0
    ELSE LET h == CHOOSE g \in hs : TRUE IN
         Count(keyed_changes_[h].cache_changes, x) + CountInEntries(hs \ {h}, x)

InstanceSamples == UNION {Range(keyed_changes_[h].cache_changes) : h \in DOMAIN keyed_changes_}

\* the capacity of the store: maximumReservedCaches, where 0 stands for no limit
max_total_samples == Unlimited(to_history_attributes)

\* this step is a call of received_change on the attached history
ReceivedStep == last'.op = "received_change" /\ next_sn' = next_sn + 1

\* the remove_change_nts assertion: a stored sample of a keyed topic has its entry
AssertKeyInMap ==
    has_keys_ =>
        \A c \in Range(m_changes) :
            isDefined(c.instanceHandle) /\ c.instanceHandle \in DOMAIN keyed_changes_

\* --------------------------------------------------------------------- C1
\* C1: on a keyed topic, after every operation, the instance entries' lists taken
\* together hold exactly the samples of the change store, each as often as the store
\* holds it: a stored sample is in exactly one entry, an entry's sample is stored.
C1_InstancesEqualStore ==
    has_keys_ =>
        \A c \in Range(m_changes) \cup InstanceSamples :
            /\ Count(m_changes, c) = CountInEntries(DOMAIN keyed_changes_, c)
            /\ Cardinality({h \in DOMAIN keyed_changes_ :
                               c \in Range(keyed_changes_[h].cache_changes)}) = 1

\* C1 witness: a keyed history after admissions and a removal through
\* remove_change_nts, with two instances still holding samples
C1_Witness ==
    /\ has_keys_
    /\ last.op = "remove_change_nts" /\ last.ret
    /\ Cardinality({h \in DOMAIN keyed_changes_ : keyed_changes_[h].cache_changes # <<>>}) >= 2
    /\ Len(m_changes) >= 3

\* --------------------------------------------------------------------- C2
\* C2 as stated: in every configuration the store never holds more samples than the
\* resource limit max_samples (0 rewritten to unlimited).
C2_StoreWithinMaxSamples == Len(m_changes) <= resource_limited_qos_.max_samples

\* C2 amended: the store never holds more samples than its capacity, which is
\* max_samples under KEEP_ALL, depth on an unkeyed KEEP_LAST history and
\* depth * max_instances on a keyed KEEP_LAST history (0 meaning unlimited).
C2_StoreWithinCapacity ==
    /\ Len(m_changes) <= max_total_samples
    /\ qos.kind = KEEP_ALL_HISTORY_QOS => max_total_samples = resource_limited_qos_.max_samples
    /\ (qos.kind = KEEP_LAST_HISTORY_QOS /\ ~has_keys_) => max_total_samples = qos.depth
    /\ (qos.kind = KEEP_LAST_HISTORY_QOS /\ has_keys_) =>
           max_total_samples = Unlimited(qos.depth * qos.max_instances)

\* C2 witness: a KEEP_LAST store filled to its capacity, above max_samples
C2_Witness ==
    /\ qos.kind = KEEP_LAST_HISTORY_QOS
    /\ Len(m_changes) = max_total_samples
    /\ Len(m_changes) > resource_limited_qos_.max_samples
    /\ last.op = "received_change" /\ last.ret

\* --------------------------------------------------------------------- C3
\* C3: after every operation the flag m_isHistoryFull is true exactly when the store
\* holds max_total_samples samples (the store's capacity).
C3_FullIffAtCapacity == m_isHistoryFull <=> (Len(m_changes) = max_total_samples)

\* C3 witness: a store that was filled, had a sample removed, and was filled again
C3_Witness ==
    /\ m_isHistoryFull
    /\ removed
    /\ last.op = "received_change" /\ last.ret
    /\ Len(m_changes) >= 2


\* --------------------------------------------------------------------- C4
\* the last m of the samples s1 .. sn, in delivery order (unkeyed: no handle)
LastDelivered(n, m) == [i \in 1..m |-> CacheChange(n - m + i, HANDLE_NIL)]

\* C4: an unkeyed KEEP_LAST store never holds more than depth samples, and while
\* nothing but received_change has been called it is the last min(n, depth) of the
\* n delivered samples, in delivery order.
C4_KeepLastNoKey ==
    (~has_keys_ /\ qos.kind = KEEP_LAST_HISTORY_QOS) =>
        /\ Len(m_changes) <= qos.depth
        /\ ~removed => m_changes = LastDelivered(next_sn - 1, Min(next_sn - 1, qos.depth))

\* C4 witness: depth 2, more deliveries than the depth, the front evicted each time
C4_Witness ==
    /\ ~has_keys_ /\ qos.kind = KEEP_LAST_HISTORY_QOS /\ qos.depth = 2
    /\ ~removed
    /\ next_sn - 1 = MaxSn
    /\ last.op = "received_change" /\ last.ret
    /\ m_changes = <<CacheChange(MaxSn - 1, HANDLE_NIL), CacheChange(MaxSn, HANDLE_NIL)>>

\* --------------------------------------------------------------------- C5
C5_WithinDepth ==
    (has_keys_ /\ qos.kind = KEEP_LAST_HISTORY_QOS) =>
        \A h \in DOMAIN keyed_changes_ : Len(keyed_changes_[h].cache_changes) <= qos.depth

C5_EvictsOwnOldest ==
    (has_keys_ /\ qos.kind = KEEP_LAST_HISTORY_QOS /\ ReceivedStep /\ last'.ret) =>
        LET h == last'.h
            c == CacheChange(next_sn, h)
            old == IF h \in DOMAIN keyed_changes_
                   THEN keyed_changes_[h].cache_changes ELSE <<>>
            evicts == Len(old) >= qos.depth
        IN /\ h \in DOMAIN keyed_changes_'
           /\ keyed_changes_'[h].cache_changes =
                  Append(IF evicts THEN Tail(old) ELSE old, c)
           /\ m_changes' =
                  Append(IF evicts THEN SelectSeq(m_changes, LAMBDA x : x # old[1])
                         ELSE m_changes, c)
           /\ \A g \in (DOMAIN keyed_changes_) \ {h} :
                  IF g \in DOMAIN keyed_changes_'
                  THEN keyed_changes_'[g].cache_changes = keyed_changes_[g].cache_changes
                  ELSE keyed_changes_[g].cache_changes = <<>>

\* C5: on a keyed KEEP_LAST history every entry holds at most depth samples, and an
\* accepted sample whose instance already holds depth samples evicts that instance's
\* oldest sample and no other, and is appended to its instance and to the store.
C5_KeepLastWithKey == [](C5_WithinDepth) /\ [][C5_EvictsOwnOldest]_vars

\* C5 witness: depth 2 and the deliveries A1, B1, A2, A3, B2
C5_Witness ==
    /\ has_keys_ /\ qos.kind = KEEP_LAST_HISTORY_QOS /\ qos.depth = 2
    /\ ~removed
    /\ DOMAIN keyed_changes_ = {1, 2}
    /\ keyed_changes_[1].cache_changes = <<CacheChange(3, 1), CacheChange(4, 1)>>
    /\ keyed_changes_[2].cache_changes = <<CacheChange(2, 2), CacheChange(5, 2)>>
    /\ Len(m_changes) = 4

\* --------------------------------------------------------------------- C6
\* C6: on a keyed topic, whatever the history kind, every instance entry holds at
\* most max_samples_per_instance samples.
C6_WithinMaxSamplesPerInstance ==
    has_keys_ =>
        \A h \in DOMAIN keyed_changes_ :
            Len(keyed_changes_[h].cache_changes)
                <= resource_limited_qos_.max_samples_per_instance

\* --------------------------------------------------------------------- C7
EmptyEntries == {e \in DOMAIN keyed_changes_ : keyed_changes_[e].cache_changes = <<>>}

C7_WithinMaxInstances ==
    Cardinality(DOMAIN keyed_changes_) <= resource_limited_qos_.max_instances

C7_Reclaim ==
    /\ \A g \in (DOMAIN keyed_changes_) \ (DOMAIN keyed_changes_') :
           keyed_changes_[g].cache_changes = <<>>
    /\ ( /\ has_keys_ /\ ReceivedStep
         /\ isDefined(last'.h) /\ last'.h \notin DOMAIN keyed_changes_
         /\ Cardinality(DOMAIN keyed_changes_) = resource_limited_qos_.max_instances )
       => IF EmptyEntries = {}
          THEN ~last'.ret /\ keyed_changes_' = keyed_changes_
          ELSE \E e \in EmptyEntries :
                  /\ DOMAIN keyed_changes_' = ((DOMAIN keyed_changes_) \ {e}) \cup {last'.h}
                  /\ \A g \in (DOMAIN keyed_changes_) \ {e} :
                         keyed_changes_'[g] = keyed_changes_[g]

\* C7: the instance table never holds more than max_instances entries; an entry that
\* holds samples is never erased; a sample for a new handle that finds the table at
\* max_instances is rejected with the table unchanged when no entry is empty, and
\* otherwise takes the place of exactly one empty entry.
C7_InstanceTableBound == [](C7_WithinMaxInstances) /\ [][C7_Reclaim]_vars

\* C7 witness: max_instances 2, A emptied and B holding a sample, C delivered: {B, C}
C7_Witness ==
    /\ has_keys_ /\ qos.max_instances = 2
    /\ last.op = "received_change" /\ last.ret /\ last.h = 3 /\ last.erased = {1}
    /\ DOMAIN keyed_changes_ = {2, 3}
    /\ keyed_changes_[2].cache_changes # <<>>

\* --------------------------------------------------------------------- C8
\* C8: when received_change has returned true the delivered sample is in the store
\* exactly once and, on a keyed topic, exactly once in the entry of its handle, as
\* the last element of that entry's list.
C8_AcceptedSamplePlaced ==
    (last.op = "received_change" /\ last.ret) =>
        /\ Count(m_changes, Delivered) = 1
        /\ Cardinality({i \in 1..Len(m_changes) :
                           m_changes[i].sequenceNumber = next_sn - 1}) = 1
        /\ has_keys_ =>
               /\ isDefined(last.h)
               /\ last.h \in DOMAIN keyed_changes_
               /\ LET l == keyed_changes_[last.h].cache_changes IN
                  /\ Len(l) >= 1
                  /\ l[Len(l)] = Delivered
                  /\ Count(l, Delivered) = 1

\* C8 witness: a keyed sample that arrived without a handle, accepted behind an
\* earlier sample of its instance
C8_Witness ==
    /\ has_keys_
    /\ last.op = "received_change" /\ last.ret
    /\ Len(keyed_changes_[last.h].cache_changes) >= 2
    /\ Len(m_changes) >= 3

\* --------------------------------------------------------------------- C9
\* C9: a received_change that returns false leaves the store, the instance table
\* (handles, lists, deadlines) and the full flag as they were.
C9_RejectionChangesNothing ==
    [][(last'.op = "received_change" /\ ~last'.ret) =>
          /\ m_changes' = m_changes
          /\ keyed_changes_' = keyed_changes_
          /\ m_isHistoryFull' = m_isHistoryFull]_vars

\* -------------------------------------------------------------------- C10
C10_Admission ==
    (~has_keys_ /\ qos.kind = KEEP_ALL_HISTORY_QOS /\ ReceivedStep) =>
        /\ last'.ret <=> (Len(m_changes) + last'.k < max_total_samples)
        /\ SubSeq(m_changes', 1, Len(m_changes)) = m_changes
        /\ last'.ret =>
               /\ m_changes' = Append(m_changes, CacheChange(next_sn, last'.h))
               /\ max_total_samples - Len(m_changes') >= last'.k
        /\ ~last'.ret => m_changes' = m_changes

\* C10: on an unkeyed KEEP_ALL history received_change(c, k) accepts exactly when
\* size + k < max_total_samples; it removes nothing, and after an acceptance at
\* least k slots of the store are free.
C10_KeepAllNoKey == [][C10_Admission]_vars

\* C10 witness: an acceptance with k = 1 that leaves exactly one slot free, after an
\* earlier acceptance
C10_Witness ==
    /\ ~has_keys_ /\ qos.kind = KEEP_ALL_HISTORY_QOS
    /\ last.op = "received_change" /\ last.ret /\ last.k = 1
    /\ Len(m_changes) >= 1
    /\ max_total_samples - Len(m_changes) = 1

\* -------------------------------------------------------------------- C11
\* the sample's instance has been resolved: the change left the call with a defined
\* handle whose entry is in the table
Resolved == isDefined(last'.h) /\ last'.h \in DOMAIN keyed_changes_'

\* the number of samples the resolved entry held when the call began: a created or
\* reclaimed entry holds none
EntrySizeAtCall ==
    IF last'.h \in DOMAIN keyed_changes_
    THEN Len(keyed_changes_[last'.h].cache_changes) ELSE 0

KeepAllWithKeyStep == has_keys_ /\ qos.kind = KEEP_ALL_HISTORY_QOS /\ ReceivedStep

NeverEvicts == SubSeq(m_changes', 1, Len(m_changes)) = m_changes

\* C11 as stated: on a keyed KEEP_ALL history, once the instance is resolved, the
\* sample is accepted exactly when the entry holds fewer than
\* max_samples_per_instance samples, and no stored sample is evicted.
C11_AcceptIffBelowPerInstance ==
    [][(KeepAllWithKeyStep /\ Resolved) =>
          /\ last'.ret <=>
                 (EntrySizeAtCall < resource_limited_qos_.max_samples_per_instance)
          /\ NeverEvicts]_vars

\* C11 amended: on a keyed KEEP_ALL history, once the instance is resolved, the
\* sample is accepted exactly when the entry holds fewer than
\* max_samples_per_instance samples and the store is not full (it holds fewer than
\* max_samples samples); no stored sample is evicted, accepted or not.
C11_AcceptIffBelowBothLimits ==
    [][(KeepAllWithKeyStep /\ Resolved) =>
          /\ last'.ret <=>
                 /\ EntrySizeAtCall < resource_limited_qos_.max_samples_per_instance
                 /\ ~m_isHistoryFull
          /\ m_isHistoryFull <=> (Len(m_changes) = resource_limited_qos_.max_samples)
          /\ NeverEvicts
          /\ last'.ret => m_changes' = Append(m_changes, CacheChange(next_sn, last'.h))
          /\ ~last'.ret => m_changes' = m_changes]_vars

\* C11 witness: max_samples_per_instance 1 and a store with room: a second sample of
\* an instance has just been refused while the other instance's sample is kept
C11_Witness ==
    /\ has_keys_ /\ qos.kind = KEEP_ALL_HISTORY_QOS
    /\ qos.max_samples_per_instance = 1 /\ qos.max_samples = 0
    /\ last.op = "received_change" /\ ~last.ret /\ isDefined(last.h)
    /\ last.h \in DOMAIN keyed_changes_
    /\ Len(keyed_changes_[last.h].cache_changes) = 1
    /\ Len(m_changes) = 2
    /\ ~removed

\* -------------------------------------------------------------------- C12
GotDeadline ==
    /\ has_keys_ /\ attached
    /\ result.op = "get_next_deadline"
    /\ DOMAIN keyed_changes_ # {}

\* C12 as stated: on a keyed history whose entries have all had a deadline written,
\* get_next_deadline returns a handle of the table together with the value
\* set_next_deadline last wrote for that handle, and no entry's last written value is
\* smaller.
C12_MinOfLastWritten ==
    (GotDeadline /\ \A h \in DOMAIN keyed_changes_ : written[h] # 0) =>
        /\ result.ret
        /\ result.handle \in DOMAIN keyed_changes_
        /\ result.time = written[result.handle]
        /\ \A g \in DOMAIN keyed_changes_ : result.time <= written[g]

C12_ReturnsMinimum ==
    GotDeadline =>
        /\ result.ret /\ ~result.ub
        /\ result.handle \in DOMAIN keyed_changes_
        /\ result.time = keyed_changes_[result.handle].next_deadline_us
        /\ \A g \in DOMAIN keyed_changes_ :
               result.time <= keyed_changes_[g].next_deadline_us

C12_EntryDeadline ==
    \A h \in DOMAIN keyed_changes_ :
        keyed_changes_[h].next_deadline_us \in {0, written[h]}

C12_DeadlineKept ==
    \A h \in DOMAIN keyed_changes_' :
        \/ keyed_changes_'[h].next_deadline_us = written'[h] /\ last'.op = "set_next_deadline"
        \/ h \in DOMAIN keyed_changes_
               /\ keyed_changes_'[h].next_deadline_us = keyed_changes_[h].next_deadline_us
        \/ h \notin DOMAIN keyed_changes_ /\ keyed_changes_'[h].next_deadline_us = 0

\* C12 amended: on a keyed history with a non-empty table get_next_deadline returns
\* the (handle, timestamp) pair of an entry whose next_deadline is minimal over the
\* entries of the table, where an entry's next_deadline is the value set_next_deadline
\* last wrote since the entry was created, and the default (zero) time when nothing
\* was written since: an entry erased by the reclaim step loses its deadline.
C12_MinOfEntries ==
    [](C12_ReturnsMinimum /\ C12_EntryDeadline) /\ [][C12_DeadlineKept]_vars

\* C12 witness: A -> 3, B -> 1, C -> 2 and get_next_deadline returns (B, 1)
C12_Witness ==
    /\ GotDeadline
    /\ DOMAIN keyed_changes_ = {1, 2, 3}
    /\ keyed_changes_[1].next_deadline_us = 3
    /\ keyed_changes_[2].next_deadline_us = 1
    /\ keyed_changes_[3].next_deadline_us = 2
    /\ result.ret /\ result.handle = 2 /\ result.time = 1

\* -------------------------------------------------------------------- C13
LookedUp == result.op = "lookup_instance"

IsNotFound == ~result.ret /\ result.handle = HANDLE_NIL /\ result.target = "nullptr"

\* the handles of the table strictly greater than the looked up one
Greater == {g \in DOMAIN keyed_changes_ : g > result.arg}

\* C13: lookup_instance(handle, exact) returns, on an unkeyed topic, the fictitious
\* handle with the whole change store when handle is undefined and exact is false,
\* and not-found otherwise; on a keyed topic with exact = true the entry of handle
\* when the table has it, else not-found; on a keyed topic with exact = false the
\* entry of the least handle strictly greater than handle, else not-found.
C13_LookupInstance ==
    LookedUp =>
        IF ~has_keys_
        THEN IF ~isDefined(result.arg) /\ ~result.exact
             THEN /\ result.ret /\ result.handle = FictitiousHandle
                  /\ result.target = "m_changes" /\ result.changes = m_changes
             ELSE IsNotFound
        ELSE IF result.exact
        THEN IF result.arg \in DOMAIN keyed_changes_
             THEN /\ result.ret /\ result.handle = result.arg
                  /\ result.target = "cache_changes"
                  /\ result.changes = keyed_changes_[result.arg].cache_changes
             ELSE IsNotFound
        ELSE IF Greater # {}
             THEN /\ result.ret /\ result.handle \in Greater
                  /\ \A g \in Greater : result.handle <= g
                  /\ result.target = "cache_changes"
                  /\ result.changes = keyed_changes_[result.handle].cache_changes
             ELSE IsNotFound

\* C13 witness: a table {A, C} with samples, and the lookup of the instance after A
\* returns C with its list
C13_Witness ==
    /\ has_keys_ /\ LookedUp
    /\ DOMAIN keyed_changes_ = {1, 3}
    /\ result.arg = 1 /\ ~result.exact
    /\ result.ret /\ result.handle = 3 /\ result.changes = <<CacheChange(2, 3)>>

\* -------------------------------------------------------------------- C14
\* the last two calls were received_change(c), which returned true, and
\* remove_change_sub(c)
AddedThenRemoved == pre.phase = "removed"

SizesOf(keyed) == [h \in DOMAIN keyed |-> Len(keyed[h].cache_changes)]

\* C14 as stated: after an accepted received_change(c) followed by
\* remove_change_sub(c) the store, the instance table and every entry have the sizes
\* they had before the add, and the full flag is cleared if this add set it.
C14_RoundTripRestores ==
    AddedThenRemoved =>
        /\ last.ret
        /\ Len(m_changes) = Len(pre.H.changes)
        /\ SizesOf(keyed_changes_) = SizesOf(pre.H.keyed)
        /\ ~pre.H.full => ~m_isHistoryFull

\* the list of the sample's instance before the add: none for an instance the add
\* created
ListBefore == IF pre.h \in DOMAIN pre.H.keyed THEN pre.H.keyed[pre.h].cache_changes ELSE <<>>

\* the add evicted: a KEEP_LAST history whose list (store, when unkeyed) held depth
AddEvicted ==
    /\ qos.kind = KEEP_LAST_HISTORY_QOS
    /\ Len(IF has_keys_ THEN ListBefore ELSE pre.H.changes) >= qos.depth

\* the add created the entry of the sample's instance
AddCreated == has_keys_ /\ pre.h \notin DOMAIN pre.H.keyed

\* C14 amended: an accepted received_change(c) followed by remove_change_sub(c)
\* returns true and leaves the full flag clear; it returns the core to the state
\* before the add when the add neither evicted a sample nor created an instance
\* entry.  A sample the add evicted (the oldest of c's instance, of the store when
\* unkeyed) stays removed, an entry the add created stays in the table, empty, and
\* an empty entry it reclaimed stays erased; every other entry is as before.
C14_RoundTrip ==
    AddedThenRemoved =>
        /\ last.ret
        /\ ~m_isHistoryFull
        /\ (~AddEvicted /\ ~AddCreated) => Here = pre.H
        /\ m_changes =
               IF ~AddEvicted THEN pre.H.changes
               ELSE IF has_keys_
               THEN SelectSeq(pre.H.changes, LAMBDA x : x # ListBefore[1])
               ELSE Tail(pre.H.changes)
        /\ has_keys_ =>
               /\ pre.h \in DOMAIN keyed_changes_
               /\ keyed_changes_[pre.h].cache_changes =
                      IF AddEvicted THEN Tail(ListBefore) ELSE ListBefore
               /\ \A g \in (DOMAIN keyed_changes_) \ {pre.h} :
                      g \in DOMAIN pre.H.keyed /\ keyed_changes_[g] = pre.H.keyed[g]
               /\ \A g \in (DOMAIN pre.H.keyed) \ (DOMAIN keyed_changes_) :
                      /\ AddCreated
                      /\ pre.H.keyed[g].cache_changes = <<>>
                      /\ Cardinality(DOMAIN pre.H.keyed) = resource_limited_qos_.max_instances
               /\ Cardinality((DOMAIN pre.H.keyed) \ (DOMAIN keyed_changes_)) <= 1

\* C14 witness: a sample of an instance that holds another sample is added to a
\* store that it fills, and then removed: the history is as before, the flag clear
C14_Witness ==
    /\ AddedThenRemoved /\ has_keys_
    /\ qos.kind = KEEP_ALL_HISTORY_QOS /\ qos.max_samples = 2
    /\ Len(ListBefore) = 1
    /\ Here = pre.H
    /\ Len(m_changes) = 1

\* -------------------------------------------------------------------- C17
\* the last call was a received_change of a sample that arrived without a handle
ArrivedWithoutHandle ==
    /\ has_keys_ /\ pre.phase = "received" /\ last.op = "received_change"
    /\ ~isDefined(pre.arrived)

TailOf(l) == l[Len(l)]

\* C17: on a keyed topic a sample delivered with an undefined handle gets the key K
\* of a successful get_key as its handle and is admitted under instance K as the
\* policy admits a sample that arrives with handle K (same return value, same store,
\* table and flag; accepted, it is the last of K's list); when get_key fails,
\* received_change returns false and the store and the table are unchanged.
C17_KeyResolution ==
    ArrivedWithoutHandle =>
        IF pre.key_ok
        THEN LET normal == receive_fn_(pre.H, CacheChange(next_sn - 1, pre.key), 0,
                                       pre.key, TRUE)
             IN /\ last.h = pre.key
                /\ last.ret = normal.ok
                /\ Here = normal.H
                /\ last.ret =>
                       /\ pre.key \in DOMAIN keyed_changes_
                       /\ TailOf(keyed_changes_[pre.key].cache_changes) = Delivered
                       /\ TailOf(m_changes) = Delivered
        ELSE /\ ~last.ret
             /\ ~isDefined(last.h)
             /\ Here = pre.H

\* C17 witness: a sample without a handle whose payload encodes B is accepted behind
\* an earlier sample of B
C17_Witness ==
    /\ ArrivedWithoutHandle /\ pre.key_ok /\ pre.key = 2
    /\ last.ret
    /\ qos.kind = KEEP_ALL_HISTORY_QOS
    /\ Len(keyed_changes_[2].cache_changes) = 2
    /\ TailOf(keyed_changes_[2].cache_changes) = CacheChange(next_sn - 1, 2)

\* -------------------------------------------------------------------- C15
\* C15: before the reader is attached, every public entry point (received_change,
\* both remove_change_sub, set_next_deadline, get_next_deadline,
\* get_first_untaken_info, lookup_instance) returns false or not-found, in a defined
\* way, and the history stays as the constructor left it.
C15_UnattachedCallsFail ==
    ~attached =>
        /\ ~last.ret
        /\ ~result.ret /\ ~result.ub
        /\ result.handle = HANDLE_NIL /\ result.target = "nullptr"
        /\ Here = History(<<>>, <<>>, FALSE)
        /\ next_deadline_us_ = 0

\* -------------------------------------------------------------------- C18
\* s1 .. sn were delivered to an unkeyed KEEP_LAST history and nothing was removed
\* by a caller
OnlyDelivered(n) ==
    /\ ~has_keys_ /\ qos.kind = KEEP_LAST_HISTORY_QOS
    /\ ~removed
    /\ next_sn - 1 = n

\* C18 as stated: on an unkeyed KEEP_LAST history of depth 3, after s1 .. s5 were
\* delivered in order, is_full is false.
C18_NotFullAfterFive ==
    (qos.depth = ScenarioDepth /\ OnlyDelivered(ScenarioSamples)) => ~m_isHistoryFull

\* C18 amended: on an unkeyed KEEP_LAST history of depth 3, after s1 .. s5 were
\* delivered in order, the store is [s3, s4, s5] and is_full is true: the capacity
\* is the depth, and the store holds depth samples from the depth-th delivery on.
C18_FullAfterFive ==
    \A n \in 0..MaxSn :
        OnlyDelivered(n) =>
            /\ m_isHistoryFull <=> (n >= qos.depth)
            /\ m_changes = LastDelivered(n, Min(n, qos.depth))
            /\ (qos.depth = ScenarioDepth /\ n = ScenarioSamples) =>
                   /\ m_isHistoryFull
                   /\ Len(m_changes) = ScenarioDepth

\* C18 witness: depth 3, s1 .. s5 delivered, the store is [s3, s4, s5] and full
C18_Witness ==
    /\ qos.depth = ScenarioDepth /\ OnlyDelivered(ScenarioSamples)
    /\ last.op = "received_change" /\ last.ret
    /\ m_changes = LastDelivered(ScenarioSamples, ScenarioDepth)
    /\ m_isHistoryFull

\* -------------------------------------------------------------------- C19
\* this step is a call of a removal operation on the attached history
RemovalStep ==
    /\ attached
    /\ last'.op \in {"remove_change_sub", "remove_change_sub_it", "remove_change_nts"}

\* C19: no removal operation (remove_change_sub by pointer or with iterator,
\* remove_change_nts) changes the set of handles of the instance table, whether the
\* removed sample was the last of its entry or its handle is not in the table.
C19_RemovalKeepsHandles ==
    [][RemovalStep => DOMAIN keyed_changes_' = DOMAIN keyed_changes_]_vars

\* ------------------------------------------------ the threads and the calls
\* an operation executed step by step ends in the state, and with the return value,
\* of the call executed at once on the history it found when it locked
ThreadsAgreeWithCalls ==
    LET f == frame["rtps"] IN
    /\ pc["rtps"] = "rc_unlock" =>
           LET r == receive_fn_(f.entered, CacheChange(next_sn, HANDLE_NIL), 0,
                                f.key, f.key_ok)
           IN r.H = Here /\ r.ok = f.ret
    /\ (pc["rtps"] = "rs_unlock" /\ ~f.nested) =>
           LET r == remove_change_sub(f.entered, f.victim) IN
           r.H = Here /\ r.ok = f.ret

\* -------------------------------------------------------------------- C16
\* C16: with the receive thread executing received_change and removals and the
\* application thread executing lookup_instance, get_next_deadline and
\* get_first_untaken_info, every entry point runs under the reader's mutex, so no
\* query ever reads the history in an intermediate state of another thread's
\* operation.
C16_NoIntermediateStateObserved == ~seen.torn

\* -------------------------------------------------------------------- C20
\* the owner and the hold count of the mutex that the guards alive in thread t make
HoldCount(t) ==
    IF t = "rtps"
    THEN CASE pc[t] \in {"rc_policy", "rc_add", "rc_push", "rc_unlock"} -> 1
           [] pc[t] = "rs_lock" -> IF frame[t].nested THEN 1 ELSE 0
           [] pc[t] \in {"rs_key", "rs_store", "rs_unlock"} ->
                  IF frame[t].nested THEN 2 ELSE 1
           [] OTHER -> 0
    ELSE IF pc[t] \in {"q_read", "q_unlock"} THEN 1 ELSE 0

C20_LockDiscipline ==
    /\ \A t \in Threads :
           /\ pc[t] = "idle" => mutex.owner # t
           /\ HoldCount(t) > 0 => mutex = [owner |-> t, count |-> HoldCount(t)]
    /\ (\A t \in Threads : HoldCount(t) = 0) => mutex = [owner |-> NoThread, count |-> 0]
    /\ (pc["rtps"] = "rs_lock" /\ frame["rtps"].nested) => can_lock("rtps")

C20_Returns == \A t \in Threads : (pc[t] # "idle") ~> (pc[t] = "idle")

\* C20: every call returns, with the mutex released to the hold count it had when
\* the call began (none for a call of the reader or the application, one for the
\* removal a KEEP_LAST received_change makes); the removal inside received_change
\* takes the mutex its thread already holds without blocking; with two threads and
\* fair scheduling every operation that began completes.
C20_OperationsReturn == [](C20_LockDiscipline) /\ C20_Returns

\* C20 witness: the receive thread is inside the removal that its KEEP_LAST
\* received_change made, holding the mutex twice, while the application thread
\* waits for the mutex
C20_Witness ==
    /\ pc["rtps"] = "rs_key" /\ frame["rtps"].nested
    /\ mutex = [owner |-> "rtps", count |-> 2]
    /\ pc["app"] = "q_lock"


\* ------------------------------------------------------------------ C21
\* the last call was remove_change_sub(change, it) and it returned true
RemovedThroughIterator == iter.op = "remove_change_sub_it" /\ iter.ret

\* the list lookup_instance hands out for a change's instance: the entry's
\* cache_changes on a keyed topic, the change store on an unkeyed one
HandedOutList == IF has_keys_ THEN "cache_changes" ELSE "m_changes"

\* iter is valid, runs over `list` and designates the element that followed the
\* change there (end() when the change was last)
DesignatesNextOf(list) ==
    /\ iter.valid
    /\ iter.list = list
    /\ Deref(Here, iter) = iter.next

\* C21 as stated: when remove_change_sub(change, it) is called with an iterator into
\* the change store positioned at the change and returns true, it designates on
\* return the change-store element that followed the change, keyed or not.
C21_StoreIteratorAdvanced ==
    (RemovedThroughIterator /\ iter.passed = "m_changes") => DesignatesNextOf("m_changes")

\* C21, amended: when remove_change_sub(change, it) is called with an iterator
\* positioned at the change in the list lookup_instance hands out (the entry's list on
\* a keyed topic, the change store on an unkeyed one) and returns true, it designates
\* on return the element that followed the change in that list, or its end; with
\* such an iterator the assertion of the keyed path never fails.
C21_IteratorAdvanced ==
    /\ (RemovedThroughIterator /\ iter.passed = HandedOutList)
           => DesignatesNextOf(HandedOutList)
    /\ iter.aborted => iter.passed # HandedOutList

\* a sample with a successor in its instance's list was removed through an iterator
\* into that list, on a keyed topic
C21_Witness ==
    /\ has_keys_
    /\ RemovedThroughIterator
    /\ iter.passed = "cache_changes"
    /\ iter.next # End
    /\ Len(m_changes) >= 2


\* ------------------------------------------------------------------ C22
\* Samples are accepted in the order of their sequence numbers (one writer, each
\* arrival takes the next number): a list is in reception order when its sequence
\* numbers increase.
InReceptionOrder(l) ==
    \A i, j \in 1..Len(l) : i < j => l[i].sequenceNumber < l[j].sequenceNumber

\* the samples of list l that list m holds too, in the order of l
Survivors(l, m) == SelectSeq(l, LAMBDA x : \E i \in 1..Len(m) : m[i] = x)

ListsInReceptionOrder ==
    /\ InReceptionOrder(m_changes)
    /\ \A h \in DOMAIN keyed_changes_ : InReceptionOrder(keyed_changes_[h].cache_changes)

\* a step leaves the samples that stay in a list in the order they had, and puts a
\* sample it adds behind them
StepKeepsOrder ==
    /\ Survivors(m_changes, m_changes') = Survivors(m_changes', m_changes)
    /\ \A i \in 1..Len(m_changes') :
           (\A j \in 1..Len(m_changes) : m_changes[j] # m_changes'[i])
               => i = Len(m_changes')
    /\ \A h \in (DOMAIN keyed_changes_) \cap (DOMAIN keyed_changes_') :
           LET l == keyed_changes_[h].cache_changes
               m == keyed_changes_'[h].cache_changes
           IN /\ Survivors(l, m) = Survivors(m, l)
              /\ \A i \in 1..Len(m) :
                     (\A j \in 1..Len(l) : l[j] # m[i]) => i = Len(m)

\* C22: after any sequence of admissions, evictions and removals the samples of the
\* change store and of every instance entry are in reception order; no step
\* reorders the samples that remain or places an accepted sample before an earlier
\* one.
C22_ReceptionOrder == [](ListsInReceptionOrder) /\ [][StepKeepsOrder]_vars

\* after a removal, an entry holds two samples around a removed one and the store
\* holds samples of another instance too
C22_Witness ==
    /\ removed
    /\ \E h \in DOMAIN keyed_changes_ :
           LET l == keyed_changes_[h].cache_changes IN
           /\ Len(l) >= 2
           /\ l[2].sequenceNumber > l[1].sequenceNumber + 1
           /\ Len(m_changes) > Len(l)


\* ------------------------------------------------------------------ C23
\* the last call was get_next_deadline on the attached keyed history and it
\* returned true
GotKeyedDeadline ==
    /\ result.op = "get_next_deadline"
    /\ result.ret
    /\ attached
    /\ has_keys_

\* C23: on an attached keyed history, whenever get_next_deadline returns true the
\* returned handle is in the instance table and the returned time is that entry's
\* next_deadline, read from an entry of the table; on an empty table no entry is read.
C23_DeadlineOfTableEntry ==
    GotKeyedDeadline =>
        /\ ~result.ub
        /\ result.handle \in DOMAIN keyed_changes_
        /\ result.time = keyed_changes_[result.handle].next_deadline_us


\* ------------------------------------------------------------------ C24
Stopped(L) == L.remote_guid = c_Guid_Unknown

\* the state stop() leaves: GUID unknown, no locators, flags false
Reset(L) ==
    /\ Stopped(L)
    /\ L.unicast = <<>>
    /\ L.multicast = <<>>
    /\ ~L.expects_inline_qos_
    /\ ~L.is_local_reader_

\* a step that is a call of op on the ReaderLocator
LocatorStep(op) == locator_call'.op = op /\ locators' # locators

\* the locator is bound to one GUID: its three copies agree
OneGuid ==
    /\ reader_locator.guid_as_vector_ = <<reader_locator.remote_guid>>
    /\ reader_locator.guid_prefix_as_vector_ = <<reader_locator.remote_guid.guidPrefix>>

StartBindsWhenStopped ==
    LocatorStep("start") =>
        /\ locator_call'.ret = Stopped(reader_locator)
        /\ locator_call'.ret => reader_locator'.remote_guid = locator_call'.guid
        /\ ~locator_call'.ret => reader_locator' = reader_locator

StopResetsBoundGuid ==
    LocatorStep("stop") =>
        /\ locator_call'.ret = (locator_call'.guid = reader_locator.remote_guid)
        /\ locator_call'.ret => Reset(reader_locator')
        /\ ~locator_call'.ret => reader_locator' = reader_locator

\* a start that follows a stop that returned true succeeds
StartAfterStop ==
    (/\ locator_call.op = "start"
     /\ locator_call.prev.op = "stop"
     /\ locator_call.prev.ret) => locator_call.ret

SendOnStoppedOrLocal ==
    (/\ locator_call.op = "send"
     /\ Stopped(reader_locator) \/ reader_locator.is_local_reader_)
        => locator_call.ret /\ locator_call.sent = "none"

\* C24: a ReaderLocator is stopped (remote GUID unknown) or started for exactly one
\* GUID; start returns true and binds the GUID only when the locator is stopped and
\* returns false with nothing changed when it is started; stop(guid) returns true
\* only for the bound GUID and then resets the locator (GUID unknown, locator lists
\* empty, expects_inline_qos and is_local_reader false), after which start succeeds
\* again; send on a stopped locator or a local reader returns true without sending.
C24_StartStopSend ==
    /\ [](OneGuid /\ StartAfterStop /\ SendOnStoppedOrLocal)
    /\ [][StartBindsWhenStopped /\ StopResetsBoundGuid]_vars

\* the locator was started for a GUID, stopped for it, and started again
C24_Witness ==
    /\ locator_call.op = "start"
    /\ locator_call.ret
    /\ locator_call.prev.op = "stop"
    /\ locator_call.prev.ret
    /\ locator_call.prev.guid # c_Guid_Unknown
    /\ ~Stopped(reader_locator)
    /\ reader_locator.unicast # <<>>

=============================================================================
